---- MODULE Spec2Model ----
(***************************************************************************)
(* A model of the rendering-modes lab: the metrics prober                  *)
(* (measurePageMetrics, two implementations), the endpoint POST            *)
(* /api/metrics (two implementations), the endpoint POST /api/revalidate,  *)
(* the Directus content fetcher (getPost, getAllSlugs), the on-demand ISR  *)
(* page with the platform's cache of its renders, and the comparison page  *)
(* (testAllModes).                                                         *)
(*                                                                         *)
(* JavaScript values are records tagged by t: [t |-> "undefined"],         *)
(* [t |-> "str", s |-> ...].  Clock readings (Date.now()) are naturals.    *)
(***************************************************************************)
EXTENDS Integers, Sequences, FiniteSets, TLC

\* Bound of the model: the clock's readings are 0..MaxClock.
MaxClock == 2

VARIABLES
  now,          \* the reading of Date.now()
  probe,        \* the call of measurePageMetrics the last operation made
  metricsCall,  \* the last POST /api/metrics: request and response
  revalPrev,    \* the POST /api/revalidate call finished before the last
  revalLast,    \* the last finished POST /api/revalidate call
  cmsCollection, \* the name of the CMS collection that holds the posts
  cms,          \* the posts of the CMS: slug -> version, or 0 for none
  dataCache,    \* the platform's cache of CMS responses, by request
  lastGet,      \* the last finished direct call of getPost
  lastSlugs,    \* the last finished call of getAllSlugs
  home,         \* the comparison page: its state and its runs of testAllModes
  shown,        \* the last preview or header mapping computed from a response
  flight,       \* a call of measurePageMetrics followed await by await
  pages,        \* the platform's renders of /blog/isr-ondemand/<slug>
  lastView,     \* the last answered request to /blog/isr-ondemand/<slug>, or
                \* the last run of a server page's function
  isrPages,     \* the platform's renders of /blog/isr/<slug>
  isrView,      \* the last answered request to /blog/isr/<slug>
  csr,          \* the CSR page: its state and its fetches under way
  lab           \* the Metrics Lab page: its state and its request under way

vars == <<now, probe, metricsCall, revalPrev, revalLast, cmsCollection, cms,
          dataCache, lastGet, lastSlugs, home, shown, flight, pages, lastView,
          isrPages, isrView, csr, lab>>

\* The variables the prober, the fetcher and the revalidation endpoint
\* leave alone.
fetcherLog == <<lastGet, lastSlugs>>
pageVars == <<pages, lastView>>
clientVars == <<home, shown, flight>>
laterVars == <<isrPages, isrView, csr, lab>>

None == [t |-> "none"]
Undefined == [t |-> "undefined"]
Str(s) == [t |-> "str", s |-> s]

\* JavaScript's !v for the values of the model.
Falsy(v) == v.t = "undefined" \/ (v.t = "str" /\ v.s = "")

(***************************************************************************)
(* URLs.  new URL(s) over the strings the model enumerates: it throws for  *)
(* the empty string, for text with no scheme and for a site-relative path. *)
(***************************************************************************)
Origins ==
  { [origin |-> "http://localhost:3000", host |-> "localhost:3000"],
    [origin |-> "https://app.example", host |-> "app.example"],
    [origin |-> "https://other.example", host |-> "other.example"] }

PathQueries ==
  { [pathname |-> "/blog/ssr/a", search |-> ""],
    [pathname |-> "/blog/isr/a", search |-> "?x=1"],
    [pathname |-> "/p", search |-> ""] }

RelativeUrls == { p.pathname \o p.search : p \in PathQueries }

\* The absolute URLs of the model and their parts.
UrlTable ==
  [s \in { o.origin \o p.pathname \o p.search : o \in Origins, p \in PathQueries } |->
     LET op == CHOOSE op \in Origins \X PathQueries :
                 s = op[1].origin \o op[2].pathname \o op[2].search
     IN  [ok |-> TRUE, origin |-> op[1].origin, host |-> op[1].host,
          pathname |-> op[2].pathname, search |-> op[2].search]]

ParseURL(s) ==
  IF s \in DOMAIN UrlTable THEN UrlTable[s]
  ELSE [ok |-> FALSE, origin |-> "", host |-> "", pathname |-> "", search |-> ""]

\* The url values a caller sends.
UrlStrings ==
  { "", "not a url", "/blog/ssr/a",
    "http://localhost:3000/blog/ssr/a",
    "https://app.example/blog/isr/a?x=1",
    "https://other.example/p" }

\* url.startsWith('/')
StartsWithSlash(s) == s \in RelativeUrls

\* The deployment's configuration: process.env.VERCEL_URL, or unset.
VercelUrls == {Undefined, Str("app.example")}

(***************************************************************************)
(* Response bodies are sequences of characters; a character is a record    *)
(* with its UTF-8 width and whether \s matches it.                         *)
(***************************************************************************)
ChA == [c |-> "a", bytes |-> 1, space |-> FALSE]
ChE == [c |-> "e-acute", bytes |-> 2, space |-> FALSE]
ChSp == [c |-> " ", bytes |-> 1, space |-> TRUE]
ChNl == [c |-> "\n", bytes |-> 1, space |-> TRUE]

PreviewLen == 300

RECURSIVE ByteLength(_)
\* new Blob([html]).size
ByteLength(html) ==
  IF html = <<>> THEN 0 ELSE Head(html).bytes + ByteLength(Tail(html))

\* (htmlSize / 1024).toFixed(2), in hundredths of a kilobyte
SizeKB(htmlSize) == (htmlSize * 100 + 512) \div 1024

\* The body as it is, whatever its length.
SubstringWhole(html) == html
\* html.substring(0, 300)
Substring300(html) ==
  IF Len(html) <= PreviewLen THEN html ELSE SubSeq(html, 1, PreviewLen)

\* .replace(/\s+/g, ' '): every maximal run of whitespace becomes one
\* space, so a character stays unless it is whitespace that follows
\* whitespace.
CollapseSpaces(s) ==
  LET Stays(i) == ~s[i].space \/ i = 1 \/ ~s[i - 1].space
      kept == SelectSeq([i \in 1..Len(s) |-> i], Stays)
  IN  [k \in DOMAIN kept |-> IF s[kept[k]].space THEN ChSp ELSE s[kept[k]]]

RECURSIVE TrimStart(_)
TrimStart(s) ==
  IF s # <<>> /\ Head(s).space THEN TrimStart(Tail(s)) ELSE s

RECURSIVE TrimEnd(_)
TrimEnd(s) ==
  IF s # <<>> /\ s[Len(s)].space THEN TrimEnd(SubSeq(s, 1, Len(s) - 1)) ELSE s

\* html.substring(0, 300).replace(/\s+/g, ' ').trim()
HtmlPreview(html) == TrimEnd(TrimStart(CollapseSpaces(Substring300(html))))

RECURSIVE JoinValues(_)
\* The values of one header name, combined with ", ".
JoinValues(values) ==
  IF Len(values) = 1 THEN values[1]
  ELSE values[1] \o ", " \o JoinValues(Tail(values))

RECURSIVE HeaderEntries(_)
\* The entries response.headers iterates, from the header lines the
\* response carries (pairs of a lower-case name and a value): the lines of
\* one name are one entry with their values combined, those of set-cookie
\* excepted, which are one entry each.
HeaderEntries(raw) ==
  IF raw = <<>> THEN <<>>
  ELSE LET h == Head(raw)
           Same(e) == e[1] = h[1]
           Other(e) == e[1] # h[1]
           same == SelectSeq(Tail(raw), Same)
       IN  IF h[1] = "set-cookie" THEN <<h>> \o HeaderEntries(Tail(raw))
           ELSE << <<h[1], JoinValues(<<h[2]>> \o [i \in DOMAIN same |-> same[i][2]])>> >>
                \o HeaderEntries(SelectSeq(Tail(raw), Other))

RECURSIVE HeadersRecord(_)
\* response.headers.forEach((value, key) => { headers[key] = value })
\* over the entries the Headers object iterates: a later entry of the same
\* name overwrites an earlier one.
HeadersRecord(entries) ==
  IF entries = <<>> THEN <<>>
  ELSE LET last == entries[Len(entries)]
           rest == HeadersRecord(SubSeq(entries, 1, Len(entries) - 1))
       IN  [n \in (DOMAIN rest) \cup {last[1]} |->
              IF n = last[1] THEN last[2] ELSE rest[n]]

NoHeaders == <<>>

\* The headers field of a result, from the header lines of the response.
HeadersOf(raw) == HeadersRecord(HeaderEntries(raw))

(***************************************************************************)
(* What the probed server answers.                                         *)
(***************************************************************************)
Responses ==
  { [status |-> 200, statusText |-> "OK",
     headers |-> << <<"content-type", "text/html">>, <<"x-nextjs-cache", "HIT">> >>,
     html |-> <<ChSp, ChA, ChNl, ChSp, ChE>>],
    [status |-> 404, statusText |-> "Not Found",
     headers |-> << <<"content-type", "text/html">> >>,
     html |-> <<ChA>>] }

\* How one fetch goes: the request fails before the headers arrive after d1
\* ms, or the headers arrive after d1 ms and the body read fails or ends
\* after d2 more.  The clock never goes backwards.
AllFetchRuns ==
  { fx \in [outcome : {"network_error", "body_error", "ok"},
            d1 : 0..MaxClock, d2 : 0..MaxClock, resp : Responses] :
      /\ fx.d1 + fx.d2 <= MaxClock
      /\ fx.outcome = "network_error" => fx.d2 = 0
      /\ fx.outcome # "ok" => fx.resp.status = 200 }

FetchRuns(start) == { fx \in AllFetchRuns : start + fx.d1 + fx.d2 <= MaxClock }

\* fetch(fetchUrl, ...) rejects at once when fetchUrl is no absolute URL.
FetchOf(fetchUrl, fx) ==
  IF ParseURL(fetchUrl).ok THEN fx
  ELSE [fx EXCEPT !.outcome = "network_error", !.d2 = 0]

\* What fetch or response.text() throws: an Error.
Thrown(fetchUrl, fx) ==
  [t |-> "Error",
   message |-> IF ~ParseURL(fetchUrl).ok THEN "Failed to parse URL"
               ELSE IF fx.outcome = "network_error" THEN "fetch failed"
               ELSE "terminated"]

\* Date.now() - startTime
Elapsed(reading, startTime) == reading - startTime

\* ttfbTime || totalTime, with totalTime = Date.now() - startTime
TtfbOnFailureAbsolute(ttfbTime, reading, startTime) ==
  IF ttfbTime # 0 THEN ttfbTime ELSE reading
TtfbOnFailure(ttfbTime, reading, startTime) ==
  IF ttfbTime # 0 THEN ttfbTime ELSE Elapsed(reading, startTime)

\* error instanceof Error ? error.message : 'Unknown error'
ErrorMessage(thrown) ==
  IF thrown.t = "Error" THEN thrown.message ELSE "Unknown error"

\* The readings of the clock during one probe.
HeadersAt(start, fx) == start + fx.d1
EndAt(start, fx) == start + fx.d1 + fx.d2

\* let ttfbTime = 0, assigned once the headers are there
TtfbTime(start, fx) ==
  IF fx.outcome = "network_error" THEN 0
  ELSE Elapsed(HeadersAt(start, fx), start)

\* The fields both implementations give a successful probe.
SuccessFields(url, start, fx) ==
  [url |-> url,
   status |-> fx.resp.status,
   statusText |-> fx.resp.statusText,
   ttfb |-> TtfbTime(start, fx),
   totalTime |-> Elapsed(EndAt(start, fx), start),
   htmlSize |-> ByteLength(fx.resp.html),
   htmlSizeKB |-> SizeKB(ByteLength(fx.resp.html)),
   headers |-> HeadersOf(fx.resp.headers),
   htmlPreview |-> HtmlPreview(fx.resp.html),
   timestamp |-> EndAt(start, fx)]

\* The fields both implementations give a failed probe.
FailureFields(url, fetchUrl, start, fx) ==
  [url |-> url,
   status |-> 0,
   statusText |-> "Fetch Failed",
   ttfb |-> TtfbOnFailure(TtfbTime(start, fx), EndAt(start, fx), start),
   totalTime |-> Elapsed(EndAt(start, fx), start),
   error |-> Str(ErrorMessage(Thrown(fetchUrl, fx))),
   timestamp |-> EndAt(start, fx)]

\* One finished call: how it ended (kind), with what (value), and the
\* request it made.
ProbeRecord(impl, url, fetchUrl, start, fx, kind, value) ==
  [t |-> "probe", impl |-> impl, url |-> url, fetchUrl |-> fetchUrl, start |-> start,
   headersAt |-> HeadersAt(start, fx), endAt |-> EndAt(start, fx),
   outcome |-> fx.outcome, kind |-> kind, value |-> value]

\* measurePageMetrics of lib/metrics.ts: the URL is fetched as given; a
\* failure is thrown, as an object that is no Error.
measurePageMetricsLib(url, vercelUrl, start, fx0) ==
  LET fx == FetchOf(url, fx0)
  IN  IF fx.outcome = "ok"
      THEN ProbeRecord("lib", url, url, start, fx, "returned",
                       SuccessFields(url, start, fx))
      ELSE ProbeRecord("lib", url, url, start, fx, "thrown",
                       FailureFields(url, url, start, fx))

\* isRelative ? `${VERCEL_URL ? `https://${VERCEL_URL}` : 'http://localhost:3000'}${url}` : url
FetchUrl(url, vercelUrl) ==
  IF StartsWithSlash(url)
  THEN (IF Falsy(vercelUrl) THEN "http://localhost:3000"
        ELSE "https://" \o vercelUrl.s) \o url
  ELSE url

\* response.status >= 400 ? `HTTP ${response.status}: ${response.statusText}` : undefined
HttpError(resp) ==
  IF resp.status >= 400
  THEN Str("HTTP " \o ToString(resp.status) \o ": " \o resp.statusText)
  ELSE Undefined

\* The value the second implementation returns for a successful probe.
SuccessResult(url, start, fx) ==
  LET base == SuccessFields(url, start, fx)
  IN  [f \in (DOMAIN base) \cup {"error"} |->
         IF f = "error" THEN HttpError(fx.resp) ELSE base[f]]

\* The value the second implementation returns for a failed probe.
FailureResult(url, fetchUrl, start, fx) ==
  LET base == FailureFields(url, fetchUrl, start, fx)
  IN  [f \in (DOMAIN base) \cup {"htmlSize", "htmlSizeKB", "headers", "htmlPreview"} |->
         CASE f = "htmlSize" -> 0
           [] f = "htmlSizeKB" -> 0
           [] f = "headers" -> NoHeaders
           [] f = "htmlPreview" -> <<>>
           [] OTHER -> base[f]]

\* measurePageMetrics of the second implementation: a site-relative URL is
\* resolved against the deployment's origin; a failure is returned.
measurePageMetricsAlt(url, vercelUrl, start, fx0) ==
  LET fetchUrl == FetchUrl(url, vercelUrl)
      fx == FetchOf(fetchUrl, fx0)
  IN  IF fx.outcome = "ok"
      THEN ProbeRecord("alt", url, fetchUrl, start, fx, "returned",
                       SuccessResult(url, start, fx))
      ELSE ProbeRecord("alt", url, fetchUrl, start, fx, "returned",
                       FailureResult(url, fetchUrl, start, fx))

Impls == {"lib", "alt"}

measurePageMetrics(impl, url, vercelUrl, start, fx) ==
  IF impl = "lib" THEN measurePageMetricsLib(url, vercelUrl, start, fx)
  ELSE measurePageMetricsAlt(url, vercelUrl, start, fx)

(***************************************************************************)
(* POST /api/metrics.                                                      *)
(***************************************************************************)
\* What request.json() yields: it rejects (the body is no JSON), or the
\* value is null, a value that is no object (a number, a string), or an
\* object whose url is absent or a string.
MetricsBodies ==
  { [kind |-> k, url |-> Undefined] : k \in {"unparseable", "null", "scalar"} }
  \cup { [kind |-> "object", url |-> u] : u \in {Undefined} \cup {Str(s) : s \in UrlStrings} }

\* request.headers.get('host')
HostHeaders == {Undefined, Str("localhost:3000"), Str("app.example")}

\* const body = await request.json(); const { url } = body;
\* both throw an Error: a SyntaxError, a TypeError.
BodyThrows(body) == body.kind \in {"unparseable", "null"}
BodyError(body) ==
  [t |-> "Error",
   message |-> IF body.kind = "unparseable" THEN "Unexpected token"
               ELSE "Cannot destructure property of null"]

\* JSON.stringify drops the fields whose value is undefined.
JsonBody(v) ==
  [f \in {g \in DOMAIN v : g = "error" => v[g].t # "undefined"} |-> v[f]]

Reply(status, payload, p) == [status |-> status, payload |-> payload, probe |-> p]

\* the catch block of POST: 500
Reply500(thrown) ==
  Reply(500, [error |-> Str("Failed to measure metrics"),
              message |-> Str(ErrorMessage(thrown))], None)

\* The tail of both handlers: measure testUrl and answer with the result.
MeasureAndReply(impl, testUrl, vercelUrl, start, fx) ==
  LET p == measurePageMetrics(impl, testUrl, vercelUrl, start, fx)
  IN  IF p.kind = "returned"
      THEN Reply(200, JsonBody(p.value), p)
      ELSE [Reply500([t |-> "object"]) EXCEPT !.probe = p]

\* if (requestHost && urlHost === requestHost) testUrl = urlObj.pathname + urlObj.search
TestUrl(url, host) ==
  LET urlObj == ParseURL(url)
  IN  IF ~Falsy(host) /\ urlObj.host = host.s
      THEN urlObj.pathname \o urlObj.search
      ELSE url

Routes == {"route", "part000"}

\* POST of app/api/metrics/route.ts (route) and of its second
\* implementation (part000), which probes same-host URLs by their path.
POST_metrics(route, impl, body, host, vercelUrl, start, fx) ==
  IF BodyThrows(body) THEN Reply500(BodyError(body))
  ELSE IF Falsy(body.url)
  THEN Reply(400, [error |-> Str("Missing required field: url")], None)
  ELSE IF ~ParseURL(body.url.s).ok
  THEN Reply(400, [error |-> Str("Invalid URL format")], None)
  ELSE MeasureAndReply(impl,
                       IF route = "part000" THEN TestUrl(body.url.s, host)
                       ELSE body.url.s,
                       vercelUrl, start, fx)

(***************************************************************************)
(* The metrics prober and its endpoint as a state machine.                 *)
(***************************************************************************)
Idle == [t |-> "idle"]

\* VERCEL_URL is read for a site-relative URL only.
VercelUrlsFor(impl, url) ==
  IF impl = "alt" /\ StartsWithSlash(url) THEN VercelUrls ELSE {Undefined}

\* A direct call of measurePageMetrics.
Measure ==
  \E impl \in Impls, url \in UrlStrings, fx \in FetchRuns(now) :
    \E vercelUrl \in VercelUrlsFor(impl, url) :
      LET p == measurePageMetrics(impl, url, vercelUrl, now, fx)
      IN  /\ probe' = p
          /\ now' = p.endAt
          /\ UNCHANGED <<metricsCall, revalPrev, revalLast, cmsCollection, cms,
                         dataCache, lastGet>>
          /\ UNCHANGED laterVars
          /\ UNCHANGED <<lastSlugs, pageVars, clientVars>>

MetricsCall(route, body, host, fx, r) ==
  [t |-> "call", route |-> route, body |-> body, host |-> host,
   fault |-> fx.outcome, status |-> r.status, payload |-> r.payload,
   probe |-> r.probe]

\* The bodies with which POST reaches measurePageMetrics.
ProbingBodies ==
  { b \in MetricsBodies : ~BodyThrows(b) /\ ~Falsy(b.url) /\ ParseURL(b.url.s).ok }

NoFetch == [outcome |-> "none", d1 |-> 0, d2 |-> 0]

\* One request to POST /api/metrics that is answered without a probe.
PostMetricsRejected ==
  \E route \in Routes, body \in MetricsBodies \ ProbingBodies :
    LET r == POST_metrics(route, "lib", body, Undefined, Undefined, now, NoFetch)
    IN  /\ metricsCall' = MetricsCall(route, body, Undefined, NoFetch, r)
        /\ probe' = Idle
        /\ UNCHANGED <<now, revalPrev, revalLast, cmsCollection, cms, dataCache,
                       lastGet>>
        /\ UNCHANGED laterVars
        /\ UNCHANGED <<lastSlugs, pageVars, clientVars>>

\* One request to POST /api/metrics that probes, from its arrival to its
\* response.
PostMetricsProbe ==
  \E route \in Routes, impl \in Impls, body \in ProbingBodies,
     host \in HostHeaders, fx \in FetchRuns(now) :
    \E vercelUrl \in VercelUrlsFor(impl, TestUrl(body.url.s, host)) :
      LET r == POST_metrics(route, impl, body, host, vercelUrl, now, fx)
      IN  /\ route = "route" => host = Undefined
          /\ metricsCall' = MetricsCall(route, body, host, fx, r)
          /\ probe' = r.probe
          /\ now' = r.probe.endAt
          /\ UNCHANGED <<revalPrev, revalLast, cmsCollection, cms, dataCache,
                         lastGet>>
          /\ UNCHANGED laterVars
          /\ UNCHANGED <<lastSlugs, pageVars, clientVars>>

(***************************************************************************)
(* A call of measurePageMetrics await by await: the call waits for fetch,  *)
(* then for response.text(); the platform settles each of the two.         *)
(***************************************************************************)
\* The URL the call hands to fetch.
FetchUrlOf(impl, url, vercelUrl) ==
  IF impl = "lib" THEN url ELSE FetchUrl(url, vercelUrl)

\* const startTime = Date.now(); ... await fetch(fetchUrl, ...)
StartMeasure ==
  /\ IF flight.t = "idle" THEN TRUE ELSE flight.pc = "done"
  /\ \E impl \in Impls, url \in UrlStrings :
       \E vercelUrl \in VercelUrlsFor(impl, url) :
         flight' = [t |-> "flight", pc |-> "fetching", impl |-> impl,
                    url |-> url, vercelUrl |-> vercelUrl, start |-> now,
                    d1 |-> 0, resp |-> None, probe |-> None]
  /\ UNCHANGED <<now, probe, metricsCall, revalPrev, revalLast, cmsCollection,
                 cms, dataCache, fetcherLog, pageVars, home, shown>>
  /\ UNCHANGED laterVars

\* fetch settles: it rejects, and the call ends in its catch block, or the
\* headers are there and the call goes on to await response.text().
FetchSettles ==
  /\ flight.t = "flight" /\ flight.pc = "fetching"
  /\ \E fx \in FetchRuns(flight.start) :
       LET fetchUrl == FetchUrlOf(flight.impl, flight.url, flight.vercelUrl)
           p == measurePageMetrics(flight.impl, flight.url, flight.vercelUrl,
                                   flight.start, fx)
       IN  IF FetchOf(fetchUrl, fx).outcome = "network_error"
           THEN /\ flight' = [flight EXCEPT !.pc = "done", !.d1 = fx.d1, !.probe = p]
                /\ now' = p.endAt
           ELSE /\ flight' = [flight EXCEPT !.pc = "reading", !.d1 = fx.d1,
                                            !.resp = fx.resp]
                /\ now' = flight.start + fx.d1
  /\ UNCHANGED <<probe, metricsCall, revalPrev, revalLast, cmsCollection,
                 cms, dataCache, fetcherLog, pageVars, home, shown>>
  /\ UNCHANGED laterVars

\* response.text() settles: the call ends with the result, or in its catch
\* block.
BodySettles ==
  /\ flight.t = "flight" /\ flight.pc = "reading"
  /\ \E fx \in FetchRuns(flight.start) :
       LET p == measurePageMetrics(flight.impl, flight.url, flight.vercelUrl,
                                   flight.start, fx)
       IN  /\ fx.outcome # "network_error"
           /\ fx.d1 = flight.d1 /\ fx.resp = flight.resp
           /\ flight' = [flight EXCEPT !.pc = "done", !.probe = p]
           /\ now' = p.endAt
  /\ UNCHANGED <<probe, metricsCall, revalPrev, revalLast, cmsCollection,
                 cms, dataCache, fetcherLog, pageVars, home, shown>>
  /\ UNCHANGED laterVars

(***************************************************************************)
(* POST /api/revalidate.                                                   *)
(***************************************************************************)
RevalSlugs == {Undefined, Str(""), Str("a"), Str("b")}
Secrets == {Undefined, Str("s3cret"), Str("wrong")}

\* process.env.REVALIDATION_SECRET, or unset
ConfiguredSecrets == {Undefined, Str("s3cret")}

RevalBodies ==
  { [kind |-> k, slug |-> Undefined, secret |-> Undefined] :
      k \in {"unparseable", "null", "scalar"} }
  \cup { [kind |-> "object", slug |-> s, secret |-> k] :
           s \in RevalSlugs, k \in Secrets }

\* `/blog/isr/${slug}` and `/blog/isr-ondemand/${slug}`
IsrPathCopied(slug) == "/blog/isr-ondemand/" \o slug
IsrPath(slug) == "/blog/isr/" \o slug
\* The path of the SSG page of a slug, which the handler does not name.
SsgPath(slug) == "/blog/ssg/" \o slug
OnDemandPath(slug) == "/blog/isr-ondemand/" \o slug

\* The platform's revalidatePath: the failAt-th call of a request throws
\* (0: none does).
PlatformFaults == {0, 1, 2}

RevalReply(status, payload, calls) ==
  [status |-> status, payload |-> payload, calls |-> calls]

\* the catch block of POST: 500
RevalReply500(thrown, calls) ==
  RevalReply(500, [error |-> Str("Failed to revalidate"),
                   message |-> Str(ErrorMessage(thrown))], calls)

PlatformError == [t |-> "Error", message |-> "revalidatePath failed"]

\* A catch block that swallows the platform's error and confirms.
CatchPlatformErrorSwallowed(calls, slug, reading) ==
  RevalReply(200, [success |-> TRUE,
                   message |-> Str("Revalidation triggered successfully"),
                   slug |-> slug,
                   revalidated |-> <<IsrPath(slug.s), OnDemandPath(slug.s)>>,
                   timestamp |-> reading], calls)
\* revalidatePath threw: the catch block answers 500.
CatchPlatformError(calls, slug, reading) == RevalReply500(PlatformError, calls)

\* The handler from `if (!slug)` on; calls lists the revalidatePath calls
\* made, each with its path and whether it threw.
Revalidate(body, failAt, reading) ==
  IF Falsy(body.slug)
  THEN RevalReply(400, [error |-> Str("Missing required field: slug")], <<>>)
  ELSE LET p1 == IsrPath(body.slug.s)
           p2 == OnDemandPath(body.slug.s)
       IN  IF failAt = 1
           THEN CatchPlatformError(<< [path |-> p1, threw |-> TRUE] >>,
                                   body.slug, reading)
           ELSE IF failAt = 2
           THEN CatchPlatformError(<< [path |-> p1, threw |-> FALSE],
                                      [path |-> p2, threw |-> TRUE] >>,
                                   body.slug, reading)
           ELSE RevalReply(200,
                           [success |-> TRUE,
                            message |-> Str("Revalidation triggered successfully"),
                            slug |-> body.slug,
                            revalidated |-> <<p1, p2>>,
                            timestamp |-> reading],
                           << [path |-> p1, threw |-> FALSE],
                              [path |-> p2, threw |-> FALSE] >>)

\* POST with the secret check of lines 28-34 in force.
POST_revalidateChecked(body, configured, failAt, reading) ==
  IF BodyThrows(body) THEN RevalReply500(BodyError(body), <<>>)
  ELSE IF ~Falsy(configured) /\ body.secret # configured
  THEN RevalReply(401, [error |-> Str("Invalid secret token")], <<>>)
  ELSE Revalidate(body, failAt, reading)
\* POST as it is: the secret is read from the body and not used.
POST_revalidate(body, configured, failAt, reading) ==
  IF BodyThrows(body) THEN RevalReply500(BodyError(body), <<>>)
  ELSE Revalidate(body, failAt, reading)

\* The identifiers of the posts the model follows.
Slugs == {"a", "b"}

Purged == [t |-> "purged"]

\* The paths whose revalidatePath call returned.
InvalidatedPaths(calls) ==
  { calls[i].path : i \in { j \in DOMAIN calls : ~calls[j].threw } }

\* revalidatePath(path): the platform drops its render of the path; the
\* next request to the path renders it anew.
PurgePages(rendered, calls) ==
  [s \in Slugs |->
     IF OnDemandPath(s) \in InvalidatedPaths(calls) THEN Purged ELSE rendered[s]]

\* revalidatePath(`/blog/isr/${slug}`): the platform marks its render of
\* the path as dropped, whatever its age, and gives up a regeneration under
\* way; the next request to the path renders it anew.
PurgeIsrPages(rendered, calls) ==
  [s \in Slugs |->
     IF IsrPath(s) \in InvalidatedPaths(calls) /\ rendered[s].t = "entry"
     THEN [rendered[s] EXCEPT !.purged = TRUE, !.regenerating = FALSE]
     ELSE rendered[s]]

\* revalidatePath(path) also invalidates the CMS responses the platform
\* cached for the renders of the path.
PurgeData(cache, calls) ==
  [s \in Slugs |->
     IF {IsrPath(s), OnDemandPath(s)} \cap InvalidatedPaths(calls) # {}
     THEN None ELSE cache[s]]

\* One request to POST /api/revalidate, from its arrival to its response.
PostRevalidate ==
  \E body \in RevalBodies, configured \in ConfiguredSecrets,
     failAt \in PlatformFaults :
    LET r == POST_revalidate(body, configured, failAt, now)
    IN  /\ revalLast' = [t |-> "call", body |-> body, configured |-> configured,
                         failAt |-> failAt,
                         status |-> r.status, payload |-> r.payload,
                         calls |-> r.calls]
        /\ revalPrev' = revalLast
        /\ pages' = PurgePages(pages, r.calls)
        /\ isrPages' = PurgeIsrPages(isrPages, r.calls)
        /\ dataCache' = PurgeData(dataCache, r.calls)
        /\ UNCHANGED <<now, probe, metricsCall, cmsCollection, cms, lastGet>>
        /\ UNCHANGED <<isrView, csr, lab>>
        /\ UNCHANGED <<lastSlugs, lastView, clientVars>>

(***************************************************************************)
(* The CMS (Directus) and the content fetcher of lib/directus.ts.          *)
(***************************************************************************)
\* A post is absent (0) or in one of two versions.
Versions == {1, 2}
Collections == {"blog_posts", "blogs"}

Null == [t |-> "null"]
Num(n) == [t |-> "num", n |-> n]
False == [t |-> "false"]

\* The post of a slug in its version v, as the CMS returns it.
Item(slug, v) ==
  [t |-> "item", slug |-> slug, title |-> <<"title", slug, v>>,
   content |-> <<"content", slug, v>>, date_updated |-> v]

\* The second argument of getPost: absent, a cache mode, or an object with
\* or without the key next.
NextOption(revalidate, slug) ==
  [t |-> "next", revalidate |-> revalidate, tags |-> {"blog", "blog-" \o slug}]

CacheOptions(slug) ==
  { Undefined, Str("no-store"), Str("force-cache"),
    [t |-> "obj", hasNext |-> FALSE, next |-> Undefined],
    [t |-> "obj", hasNext |-> TRUE, next |-> NextOption(Num(60), slug)],
    [t |-> "obj", hasNext |-> TRUE, next |-> NextOption(False, slug)] }

\* fetchOptions with a cache mode of the fetcher's own when the caller
\* names none.
FetchOptionsDefaulted(cacheOptions) ==
  [cache |-> IF cacheOptions.t = "str" /\ ~Falsy(cacheOptions)
             THEN cacheOptions ELSE Str("force-cache"),
   next |-> IF cacheOptions.t = "obj" /\ cacheOptions.hasNext
            THEN cacheOptions.next ELSE Undefined]
\* fetchOptions: the cache and next options getPost hands to fetch.
FetchOptions(cacheOptions) ==
  [cache |-> IF cacheOptions.t = "str" /\ ~Falsy(cacheOptions)
             THEN cacheOptions ELSE Undefined,
   next |-> IF cacheOptions.t = "obj" /\ cacheOptions.hasNext
            THEN cacheOptions.next ELSE Undefined]

\* `${DIRECTUS_URL}/items/blogs?filter[slug][_eq]=${slug}&fields=...`
GetPostRequest(slug, cacheOptions) ==
  [collection |-> "blogs", filterSlug |-> Str(slug),
   fields |-> {"slug", "title", "content", "date_created", "date_updated"},
   options |-> FetchOptions(cacheOptions)]

\* The posts in the order the CMS lists them.
SlugOrder == <<"a", "b">>

RECURSIVE CmsData(_, _, _)
\* The data of the CMS's answer: the posts whose slug the filter admits.
CmsData(posts, filterSlug, order) ==
  IF order = <<>> THEN <<>>
  ELSE LET s == Head(order)
           rest == CmsData(posts, filterSlug, Tail(order))
       IN  IF posts[s] # 0 /\ (filterSlug.t = "undefined" \/ filterSlug.s = s)
           THEN <<Item(s, posts[s])>> \o rest
           ELSE rest

\* How a request to the CMS goes.
CmsFaults == {"ok", "network_error", "bad_status", "bad_json"}

\* The CMS's answer to a request: it knows one collection only.
CmsExchange(req, collection, posts, fault) ==
  IF fault = "network_error" THEN [t |-> "throw", ok |-> FALSE, data |-> <<>>]
  ELSE IF fault = "bad_status" \/ req.collection # collection
  THEN [t |-> "response", ok |-> FALSE, data |-> <<>>]
  ELSE IF fault = "bad_json" THEN [t |-> "throw", ok |-> TRUE, data |-> <<>>]
  ELSE [t |-> "response", ok |-> TRUE,
        data |-> CmsData(posts, req.filterSlug, SlugOrder)]

\* The platform's fetch reads and fills its cache unless the request says
\* no-store.
MayUseCache(options) ==
  ~(options.cache.t = "str" /\ options.cache.s = "no-store")

\* getPost without its catch block: what fetch or response.json() throws
\* reaches the caller.
PostOfUncaught(resp) ==
  IF resp.t = "throw" THEN [t |-> "raised"]
  ELSE IF ~resp.ok \/ resp.data = <<>> THEN Null
  ELSE resp.data[1]
\* if (!response.ok) return null; const post = data.data?.[0];
\* if (!post) return null; return post;   and null from the catch block
PostOf(resp) ==
  IF resp.t = "throw" \/ ~resp.ok \/ resp.data = <<>> THEN Null
  ELSE resp.data[1]

\* getPost: the request, the response the platform hands back (the cached
\* one on a hit), and the result.
getPost(slug, cacheOptions, collection, posts, cache, fault, hit) ==
  LET req == GetPostRequest(slug, cacheOptions)
      resp == IF hit THEN cache[slug]
              ELSE CmsExchange(req, collection, posts, fault)
  IN  [t |-> "get", slug |-> slug, cacheOptions |-> cacheOptions,
       request |-> req, fault |-> fault, hit |-> hit,
       response |-> resp, result |-> PostOf(resp), stored |-> posts[slug]]

\* `${DIRECTUS_URL}/items/blogs?fields=slug` with cache: 'no-store'
GetAllSlugsRequest ==
  [collection |-> "blogs", filterSlug |-> Undefined, fields |-> {"slug"},
   options |-> [cache |-> Str("no-store"), next |-> Undefined]]

\* The JSON of a response to getAllSlugs: { data: [{ slug }, ...] } (list),
\* or a malformed body: null, an object without data, an object whose data
\* is no list, a list whose items carry no slug.
MalformedBodies == {"null_body", "no_data", "data_not_list", "item_without_slug"}
BodyShapes == {"list"} \cup MalformedBodies

\* data.data?.map((post) => post.slug) || []
\* null.data and (5).map(...) throw a TypeError, which the catch block
\* turns into []; an item without slug maps to undefined.
SlugsOfData(data, shape) ==
  CASE shape = "list" -> [i \in DOMAIN data |-> Str(data[i].slug)]
    [] shape = "item_without_slug" -> [i \in DOMAIN data |-> Undefined]
    [] OTHER -> <<>>

\* if (!response.ok) return []; ... and [] from the catch block
SlugsOf(resp, shape) ==
  IF resp.t = "throw" \/ ~resp.ok THEN <<>>
  ELSE SlugsOfData(resp.data, shape)

\* getAllSlugs: the request, the response and the result; listed is what
\* the CMS holds, in the order it lists it.
getAllSlugs(collection, posts, fault, shape) ==
  LET resp == CmsExchange(GetAllSlugsRequest, collection, posts, fault)
  IN  [t |-> "slugs", request |-> GetAllSlugsRequest, fault |-> fault,
       shape |-> shape, response |-> resp, result |-> SlugsOf(resp, shape),
       listed |-> CmsData(posts, Undefined, SlugOrder)]

\* One call of getAllSlugs, from the request to the result.
GetAllSlugs ==
  \E fault \in CmsFaults, shape \in BodyShapes :
    /\ shape # "list" => fault = "ok"
    /\ lastSlugs' = getAllSlugs(cmsCollection, cms, fault, shape)
    /\ UNCHANGED <<now, probe, metricsCall, revalPrev, revalLast,
                   cmsCollection, cms, dataCache, lastGet>>
    /\ UNCHANGED laterVars
    /\ UNCHANGED <<pageVars, clientVars>>

\* An editor publishes version v of a post, or deletes the post (v = 0).
CmsEdit ==
  \E s \in Slugs, v \in {0} \cup Versions :
    /\ cms[s] # v
    /\ cms' = [cms EXCEPT ![s] = v]
    /\ UNCHANGED <<now, probe, metricsCall, revalPrev, revalLast,
                   cmsCollection, dataCache, lastGet>>
    /\ UNCHANGED laterVars
    /\ UNCHANGED <<lastSlugs, pageVars, clientVars>>

\* One call of getPost, from the request to the result.
GetPost ==
  \E slug \in Slugs, fault \in CmsFaults, hit \in BOOLEAN :
    \E cacheOptions \in CacheOptions(slug) :
      /\ hit => /\ MayUseCache(FetchOptions(cacheOptions))
                /\ dataCache[slug].t # "none"
                /\ fault = "ok"
      /\ LET g == getPost(slug, cacheOptions, cmsCollection, cms, dataCache,
                          fault, hit)
         IN  /\ lastGet' = g
             /\ dataCache' =
                  IF ~hit /\ MayUseCache(g.request.options)
                     /\ g.response.t = "response" /\ g.response.ok
                  THEN [dataCache EXCEPT ![slug] = g.response]
                  ELSE dataCache
             /\ UNCHANGED <<now, probe, metricsCall, revalPrev, revalLast,
                            cmsCollection, cms>>
             /\ UNCHANGED laterVars
             /\ UNCHANGED <<lastSlugs, pageVars, clientVars>>

(***************************************************************************)
(* The page /blog/isr-ondemand/<slug> and the platform's cache of its      *)
(* renders.                                                                *)
(***************************************************************************)
\* export const revalidate = false
OnDemandRevalidate == False

\* getPost(slug, { next: { revalidate: false, tags: ['blog', `blog-${slug}`] } })
OnDemandCacheOptions(slug) ==
  [t |-> "obj", hasNext |-> TRUE, next |-> NextOption(False, slug)]

\* if (!post) notFound(); return <div>...{post.title}...{post.content}...</div>
RenderOnDemand(post) ==
  IF post.t = "item"
  THEN [t |-> "page", slug |-> post.slug, title |-> post.title,
        content |-> post.content, date_updated |-> post.date_updated]
  ELSE [t |-> "notFound"]

IsRender(r) == r.t \in {"page", "notFound"}

\* A cached render older than the page's revalidate interval is out of
\* date; with revalidate = false none is.
Expired(revalidate, old) == revalidate.t = "num" /\ old

\* One request to /api/revalidate for a post of the model, with no secret
\* and none configured: the handler's answer is not kept, its
\* revalidatePath calls take effect.
TriggerRevalidate ==
  \E slug \in Slugs, failAt \in PlatformFaults :
    LET body == [kind |-> "object", slug |-> Str(slug), secret |-> Undefined]
        r == POST_revalidate(body, Undefined, failAt, now)
    IN  /\ pages' = PurgePages(pages, r.calls)
        /\ isrPages' = PurgeIsrPages(isrPages, r.calls)
        /\ dataCache' = PurgeData(dataCache, r.calls)
        /\ UNCHANGED <<now, probe, metricsCall, revalPrev, revalLast,
                       cmsCollection, cms, fetcherLog, lastView, clientVars>>
        /\ UNCHANGED <<isrView, csr, lab>>

\* One request to /blog/isr-ondemand/<slug>: the platform answers with the
\* render it holds, or renders the page, keeps the render and answers
\* with it.
ViewOnDemand ==
  \E slug \in Slugs, fault \in CmsFaults, hit \in BOOLEAN, old \in BOOLEAN :
    IF IsRender(pages[slug]) /\ ~Expired(OnDemandRevalidate, old)
    THEN /\ fault = "ok" /\ ~hit
         /\ lastView' = [t |-> "view", slug |-> slug, before |-> pages[slug],
                         render |-> pages[slug], get |-> None]
         /\ UNCHANGED <<now, probe, metricsCall, revalPrev, revalLast,
                        cmsCollection, cms, dataCache, fetcherLog, pages,
                        clientVars>>
         /\ UNCHANGED laterVars
    ELSE /\ ~old
         /\ hit => (dataCache[slug].t # "none" /\ fault = "ok")
         /\ LET g == getPost(slug, OnDemandCacheOptions(slug), cmsCollection,
                             cms, dataCache, fault, hit)
            IN  /\ lastView' = [t |-> "view", slug |-> slug,
                                before |-> pages[slug],
                                render |-> RenderOnDemand(g.result), get |-> g]
                /\ pages' = [pages EXCEPT ![slug] = RenderOnDemand(g.result)]
                /\ dataCache' =
                     IF ~hit /\ g.response.t = "response" /\ g.response.ok
                     THEN [dataCache EXCEPT ![slug] = g.response]
                     ELSE dataCache
         /\ UNCHANGED <<now, probe, metricsCall, revalPrev, revalLast,
                        cmsCollection, cms, fetcherLog, clientVars>>
         /\ UNCHANGED laterVars

(***************************************************************************)
(* The page /blog/isr/<slug> and the platform's cache of its renders.  A   *)
(* render's age is counted in ticks of TickSeconds seconds.                *)
(***************************************************************************)
\* Bounds of the model: the length of a tick and the ticks an age counts.
TickSeconds == 30
MaxTicks == 3

\* export const revalidate = 60
IsrRevalidate == Num(60)

\* The slug whose page the model follows.
IsrSlugs == {"a"}

\* getPost(slug, { next: { revalidate: 60, tags: ['blog', `blog-${slug}`] } })
IsrCacheOptions(slug) ==
  [t |-> "obj", hasNext |-> TRUE, next |-> NextOption(Num(60), slug)]

\* if (!post) notFound(); return <div>...{post.title}...{post.content}...</div>
RenderIsr(post) ==
  IF post.t = "item"
  THEN [t |-> "page", slug |-> post.slug, title |-> post.title,
        content |-> post.content, date_updated |-> post.date_updated]
  ELSE [t |-> "notFound"]

\* A page that is never out of date.
StaleNever(entry) == Expired(OnDemandRevalidate, TRUE)
\* A render is out of date once it is revalidate seconds old.
Stale(entry) ==
  Expired(IsrRevalidate, entry.age * TickSeconds >= IsrRevalidate.n)

\* A render the platform has just made and keeps.
IsrEntry(render) ==
  [t |-> "entry", render |-> render, age |-> 0, purged |-> FALSE,
   regenerating |-> FALSE]

\* TickSeconds seconds pass.
TimePasses ==
  /\ \E s \in Slugs : isrPages[s].t = "entry" /\ isrPages[s].age < MaxTicks
  /\ isrPages' = [s \in Slugs |->
                    IF isrPages[s].t = "entry" /\ isrPages[s].age < MaxTicks
                    THEN [isrPages[s] EXCEPT !.age = isrPages[s].age + 1]
                    ELSE isrPages[s]]
  /\ UNCHANGED <<now, probe, metricsCall, revalPrev, revalLast, cmsCollection,
                 cms, dataCache, fetcherLog, pageVars, clientVars, isrView,
                 csr, lab>>

\* One request to /blog/isr/<slug>: the platform answers with the render
\* it holds, and starts a regeneration in the background when that render
\* is out of date; when it holds none, it renders the page, keeps the
\* render and answers with it.
ViewIsr ==
  \E slug \in IsrSlugs, fault \in CmsFaults :
    LET e == isrPages[slug]
    IN  IF e.t = "entry" /\ ~e.purged
        THEN /\ fault = "ok"
             /\ isrView' = [t |-> "view", slug |-> slug, before |-> e,
                            render |-> e.render, cached |-> TRUE,
                            triggered |-> Stale(e) /\ ~e.regenerating]
             /\ isrPages' = [isrPages EXCEPT
                               ![slug].regenerating = e.regenerating \/ Stale(e)]
             /\ UNCHANGED <<now, probe, metricsCall, revalPrev, revalLast,
                            cmsCollection, cms, dataCache, fetcherLog,
                            pageVars, clientVars, csr, lab>>
        ELSE LET g == getPost(slug, IsrCacheOptions(slug), cmsCollection, cms,
                              dataCache, fault, FALSE)
             IN  /\ isrView' = [t |-> "view", slug |-> slug, before |-> e,
                                render |-> RenderIsr(g.result), cached |-> FALSE,
                                triggered |-> FALSE]
                 /\ isrPages' = [isrPages EXCEPT
                                   ![slug] = IsrEntry(RenderIsr(g.result))]
                 /\ dataCache' =
                      IF g.response.t = "response" /\ g.response.ok
                      THEN [dataCache EXCEPT ![slug] = g.response]
                      ELSE dataCache
                 /\ UNCHANGED <<now, probe, metricsCall, revalPrev, revalLast,
                                cmsCollection, cms, fetcherLog, pageVars,
                                clientVars, csr, lab>>

\* The regeneration a request has started ends: the platform keeps the new
\* render in place of the old one.
RegenerateIsr ==
  \E slug \in IsrSlugs, fault \in CmsFaults :
    LET e == isrPages[slug]
        g == getPost(slug, IsrCacheOptions(slug), cmsCollection, cms,
                     dataCache, fault, FALSE)
    IN  /\ e.t = "entry"
        /\ e.regenerating
        /\ isrPages' = [isrPages EXCEPT ![slug] = IsrEntry(RenderIsr(g.result))]
        /\ dataCache' =
             IF g.response.t = "response" /\ g.response.ok
             THEN [dataCache EXCEPT ![slug] = g.response]
             ELSE dataCache
        /\ UNCHANGED <<now, probe, metricsCall, revalPrev, revalLast,
                       cmsCollection, cms, fetcherLog, pageVars, clientVars,
                       isrView, csr, lab>>

(***************************************************************************)
(* The preview and the header mapping of a result, over bodies around the  *)
(* preview's length and over header lines with repeated names.             *)
(***************************************************************************)
\* What a body starts and ends with: up to two characters.
Edges ==
  {<<>>} \cup { <<c>> : c \in {ChA, ChSp, ChNl} }
         \cup { <<c, d>> : c \in {ChA, ChSp, ChNl}, d \in {ChA, ChSp, ChNl} }

\* The lengths of what lies between: none, one, and those that bring the
\* body to about 300 characters.
FillLengths == {0, 1} \cup ((PreviewLen - 5) .. PreviewLen)

Bodies ==
  { pre \o [i \in 1..k |-> ChA] \o suf :
      pre \in Edges, suf \in Edges, k \in FillLengths }

\* The header lines of a response: up to three, names and values repeated.
HeaderLines ==
  { <<n, v>> : n \in {"content-type", "set-cookie", "vary"}, v \in {"a", "b"} }

RawHeaders ==
  {<<>>} \cup { <<h>> : h \in HeaderLines }
         \cup { <<h, k>> : h \in HeaderLines, k \in HeaderLines }
         \cup { <<h, k, l>> : h \in HeaderLines, k \in HeaderLines, l \in HeaderLines }

\* const htmlPreview = html.substring(0, 300).replace(/\s+/g, ' ').trim()
PreviewBody ==
  /\ shown.t = "body"
  /\ shown' = [t |-> "preview", html |-> shown.html,
               htmlPreview |-> HtmlPreview(shown.html)]
  /\ UNCHANGED <<now, probe, metricsCall, revalPrev, revalLast, cmsCollection,
                 cms, dataCache, fetcherLog, pageVars, home, flight>>
  /\ UNCHANGED laterVars

\* response.headers.forEach((value, key) => { headers[key] = value })
MapHeaders ==
  /\ shown.t = "lines"
  /\ shown' = [t |-> "headers", raw |-> shown.raw,
               headers |-> HeadersOf(shown.raw)]
  /\ UNCHANGED <<now, probe, metricsCall, revalPrev, revalLast, cmsCollection,
                 cms, dataCache, fetcherLog, pageVars, home, flight>>
  /\ UNCHANGED laterVars

(***************************************************************************)
(* The comparison page (SlugMetricsPage of app/page.tsx).                  *)
(***************************************************************************)
\* Bound of the model: the runs of testAllModes that are in progress at
\* one time.
MaxRuns == 2

\* The modes of the page's state, in their order.
ModeNames == <<"ssr", "ssg", "isr", "isr-ondemand", "csr">>

\* One entry of modes: loading, result and error.
ModeIdle == [loading |-> FALSE, result |-> Null, error |-> Null]
ModeLoading == [loading |-> TRUE, result |-> Null, error |-> Null]

\* The metrics objects /api/metrics answers with: the status of the page's
\* response (0 when the page was not reached) and the ttfb, in ms.
ProbeResults ==
  { [t |-> "metrics", status |-> 200, ttfb |-> 1],
    [t |-> "metrics", status |-> 200, ttfb |-> 2],
    [t |-> "metrics", status |-> 404, ttfb |-> 1],
    [t |-> "metrics", status |-> 0, ttfb |-> 1] }

\* How the page's request to /api/metrics ends: fetch or response.json()
\* throws, or a response arrives, with a metrics object when it is ok and
\* with or without an error member when it is not.
MetricsReplies ==
  { [t |-> "threw", ok |-> FALSE, data |-> Null] }
  \cup { [t |-> "response", ok |-> FALSE, data |-> [error |-> e]] :
           e \in {Undefined, Str("Invalid URL format")} }
  \cup { [t |-> "response", ok |-> TRUE, data |-> r] : r \in ProbeResults }

\* The catch block of testSingleMode and its message.
ProbeError(reply) ==
  IF reply.t = "threw" THEN Str("Failed to fetch")
  ELSE IF Falsy(reply.data.error) THEN Str("Failed to fetch metrics")
  ELSE reply.data.error

\* A testSingleMode that hands on the response's data with the error.
testSingleModeKeepsData(reply) ==
  IF reply.t = "response" /\ reply.ok
  THEN [result |-> reply.data, error |-> Null]
  ELSE [result |-> reply.data, error |-> ProbeError(reply)]
\* testSingleMode: { result: data, error: null } for an ok response,
\* { result: null, error: message } otherwise.
testSingleMode(reply) ==
  IF reply.t = "response" /\ reply.ok
  THEN [result |-> reply.data, error |-> Null]
  ELSE [result |-> Null, error |-> ProbeError(reply)]

\* The state after the first render: baseUrl is '' until the effect runs.
\* runs lists the calls of testAllModes that have not returned.
HomeUnmounted ==
  [baseUrl |-> "", testing |-> FALSE,
   modes |-> [i \in DOMAIN ModeNames |-> ModeIdle], runs |-> <<>>]

\* useEffect: setBaseUrl(window.location.origin)
HomeMount ==
  /\ home.baseUrl = ""
  /\ \E origin \in {"http://localhost:3000", "https://app.example"} :
       home' = [home EXCEPT !.baseUrl = origin]
  /\ UNCHANGED <<now, probe, metricsCall, revalPrev, revalLast, cmsCollection,
                 cms, dataCache, fetcherLog, pageVars, shown, flight>>
  /\ UNCHANGED laterVars

\* A button that stays enabled during a run.
ButtonEnabledWhileTesting(h) == h.baseUrl # ""
\* disabled={testing || !baseUrl}
ButtonEnabled(h) == ~h.testing /\ h.baseUrl # ""

\* A call of testAllModes at its await: index i of the loop, waiting for
\* testSingleMode (pc = "probe", the request to /api/metrics is
\* outstanding) or for the timer (pc = "pause"); issued lists the modes
\* probed so far, completed and pauses count the probes and the pauses
\* that have ended.
RunStarted ==
  [i |-> 1, pc |-> "probe", issued |-> <<ModeNames[1]>>, completed |-> 0,
   pauses |-> 0]

\* A click on the button: testAllModes runs up to its first await.  React
\* commits the updates of a click before it handles the next event, so the
\* next click meets the button re-rendered.
ClickTestAll ==
  /\ ButtonEnabled(home)
  /\ Len(home.runs) < MaxRuns
  /\ home' = [home EXCEPT !.testing = TRUE,
                          !.modes = [i \in DOMAIN ModeNames |-> ModeLoading],
                          !.runs = Append(home.runs, RunStarted)]
  /\ UNCHANGED <<now, probe, metricsCall, revalPrev, revalLast, cmsCollection,
                 cms, dataCache, fetcherLog, pageVars, shown, flight>>
  /\ UNCHANGED laterVars

\* testSingleMode returns, with a result or with an error: the entry of
\* the mode is set and the timer of 100 ms is started.
ProbeCompletes ==
  \E k \in DOMAIN home.runs, reply \in MetricsReplies :
    LET run == home.runs[k]
        ended == testSingleMode(reply)
    IN  /\ run.pc = "probe"
        /\ home' = [home EXCEPT
                      !.modes[run.i] = [loading |-> FALSE,
                                        result |-> ended.result,
                                        error |-> ended.error],
                      !.runs[k] = [run EXCEPT !.pc = "pause",
                                              !.completed = run.completed + 1]]
        /\ UNCHANGED <<now, probe, metricsCall, revalPrev, revalLast,
                       cmsCollection, cms, dataCache, fetcherLog, pageVars,
                       shown, flight>>
        /\ UNCHANGED laterVars

\* The runs without the k-th.
WithoutRun(runs, k) ==
  SubSeq(runs, 1, k - 1) \o SubSeq(runs, k + 1, Len(runs))

\* The timer fires: the loop goes on with the next mode, or ends with
\* setTesting(false).
PauseElapses ==
  \E k \in DOMAIN home.runs :
    LET run == home.runs[k]
    IN  /\ run.pc = "pause"
        /\ home' =
             IF run.i < Len(ModeNames)
             THEN [home EXCEPT
                     !.runs[k] = [run EXCEPT
                                    !.i = run.i + 1, !.pc = "probe",
                                    !.issued = Append(run.issued, ModeNames[run.i + 1]),
                                    !.pauses = run.pauses + 1]]
             ELSE [home EXCEPT !.testing = FALSE,
                               !.runs = WithoutRun(home.runs, k)]
        /\ UNCHANGED <<now, probe, metricsCall, revalPrev, revalLast,
                       cmsCollection, cms, dataCache, fetcherLog, pageVars,
                       shown, flight>>
        /\ UNCHANGED laterVars

\* modes.every(m => m.result): the comparison table is rendered.
TableShown(h) == \A i \in DOMAIN h.modes : h.modes[i].result # Null

\* Math.min(...modes.filter(m => m.result).map(m => m.result.ttfb))
MinTtfb(h) ==
  LET ttfbs == { h.modes[i].result.ttfb :
                   i \in { j \in DOMAIN h.modes : h.modes[j].result # Null } }
  IN  CHOOSE t \in ttfbs : \A u \in ttfbs : t <= u

\* The row of mode i is in the table and isFastestTTFB holds for it: its
\* TTFB cell carries the trophy and its Winner cell the tick.
IsFastestTTFB(h, i) ==
  /\ TableShown(h)
  /\ h.modes[i].result.ttfb = MinTtfb(h)

(***************************************************************************)
(* The four server-rendered pages of a post: what one render of each asks  *)
(* of getPost.                                                             *)
(***************************************************************************)
ServerModes == {"ssr", "ssg", "isr", "isr-ondemand"}

\* getPost(slug, 'no-store')
SsrCacheOptions == Str("no-store")
\* An SSG page that asks for uncached data, as the SSR page does.
SsgCacheOptionsUncached == Str("no-store")
\* getPost(slug, 'force-cache')
SsgCacheOptions == Str("force-cache")

\* The second argument of the page's call of getPost.
PageCacheOptions(mode, slug) ==
  CASE mode = "ssr" -> SsrCacheOptions
    [] mode = "ssg" -> SsgCacheOptions
    [] mode = "isr" -> IsrCacheOptions(slug)
    [] mode = "isr-ondemand" -> OnDemandCacheOptions(slug)

\* const post = await getPost(slug, ...); if (!post) notFound(); return ...
\* One run of a page's function: the calls of getPost it makes, in order,
\* and what it renders.
RenderPage(mode, slug, collection, posts, cache, fault, hit) ==
  LET g == getPost(slug, PageCacheOptions(mode, slug), collection, posts,
                   cache, fault, hit)
  IN  [t |-> "render", mode |-> mode, slug |-> slug, gets |-> <<g>>,
       page |-> IF g.result.t = "null" THEN [t |-> "notFound"]
                ELSE [t |-> "page", mode |-> mode, post |-> g.result]]

\* The platform runs a server page's function for a slug.
RenderServerPage ==
  \E mode \in ServerModes, slug \in Slugs, fault \in CmsFaults,
     hit \in BOOLEAN :
    /\ hit => /\ MayUseCache(FetchOptions(PageCacheOptions(mode, slug)))
              /\ dataCache[slug].t # "none"
              /\ fault = "ok"
    /\ LET r == RenderPage(mode, slug, cmsCollection, cms, dataCache, fault,
                           hit)
           g == r.gets[1]
       IN  /\ lastView' = r
           /\ dataCache' =
                IF ~hit /\ MayUseCache(g.request.options)
                   /\ g.response.t = "response" /\ g.response.ok
                THEN [dataCache EXCEPT ![slug] = g.response]
                ELSE dataCache
    /\ UNCHANGED <<now, probe, metricsCall, revalPrev, revalLast,
                   cmsCollection, cms, fetcherLog, pages, clientVars>>
    /\ UNCHANGED laterVars

(***************************************************************************)
(* The CSR page (CSRBlogPost) and the Metrics Lab page (MetricsLabPage).   *)
(***************************************************************************)
\* `${DIRECTUS_URL}/items/blog_posts?filter[slug][_eq]=${slug}&fields=...`
\* with cache: 'no-store'
CsrRequest(slug) ==
  [collection |-> "blog_posts", filterSlug |-> Str(slug),
   fields |-> {"slug", "title", "content", "date_updated"},
   options |-> [cache |-> Str("no-store"), next |-> Undefined]]

\* process.env.NEXT_PUBLIC_DIRECTUS_URL, or unset
DirectusUrls == {Undefined, Str("https://cms.example")}

\* The runs of the effect after one mount: one, and a second one where
\* React's Strict Mode replays the effects of a mount (development builds).
MaxEffectRuns == 2

\* useState: post null, loading true, error null; no effect has run yet
\* and no page is open (slug undefined).  fetches lists the calls of
\* fetchPost that wait for their response.
CsrFirstRender ==
  [slug |-> Undefined, post |-> Null, loading |-> TRUE, error |-> Null,
   fetches |-> <<>>, effects |-> 0, directusUrl |-> Undefined]

\* The browser opens /blog/csr/<slug>: the router mounts the page anew, also
\* when it leaves the page of another slug, whose instance is unmounted;
\* the state updates of an unmounted instance's fetches are dropped.
CsrOpen ==
  /\ \E slug \in Slugs :
       csr' = [CsrFirstRender EXCEPT !.slug = Str(slug),
                                     !.directusUrl = csr.directusUrl]
  /\ UNCHANGED <<now, probe, metricsCall, revalPrev, revalLast, cmsCollection,
                 cms, dataCache, fetcherLog, pageVars, clientVars>>
  /\ UNCHANGED <<isrPages, isrView, lab>>

\* The effect runs: fetchPost up to its await of fetch, or through its
\* catch and finally blocks when DIRECTUS_URL is not configured.
CsrEffect ==
  /\ ~Falsy(csr.slug)
  /\ csr.effects < MaxEffectRuns
  /\ csr' =
       IF Falsy(csr.directusUrl)
       THEN [csr EXCEPT !.effects = csr.effects + 1,
                        !.error = Str("NEXT_PUBLIC_DIRECTUS_URL is not configured"),
                        !.loading = FALSE]
       ELSE [csr EXCEPT !.effects = csr.effects + 1,
                        !.loading = TRUE, !.error = Null,
                        !.fetches = Append(csr.fetches,
                                           [slug |-> csr.slug.s,
                                            request |-> CsrRequest(csr.slug.s)])]
  /\ UNCHANGED <<now, probe, metricsCall, revalPrev, revalLast, cmsCollection,
                 cms, dataCache, fetcherLog, pageVars, clientVars>>
  /\ UNCHANGED <<isrPages, isrView, lab>>

\* fetchPost from the response on: setPost(fetchedPost), or the catch
\* block's setError(message); then setLoading(false).
FetchPostEnds(state, resp) ==
  IF resp.t = "throw"
  THEN [state EXCEPT !.error = Str("Failed to fetch"), !.loading = FALSE]
  ELSE IF ~resp.ok
  THEN [state EXCEPT !.error = Str("Failed to fetch: statusText"),
                     !.loading = FALSE]
  ELSE IF resp.data = <<>>
  THEN [state EXCEPT !.error = Str("Post not found"), !.loading = FALSE]
  ELSE [state EXCEPT !.post = resp.data[1], !.loading = FALSE]

\* The request of a waiting fetchPost ends and the call runs to its end.
CsrFetchSettles ==
  /\ \E k \in DOMAIN csr.fetches, fault \in CmsFaults :
       LET resp == CmsExchange(csr.fetches[k].request, cmsCollection, cms,
                               fault)
       IN  csr' = FetchPostEnds([csr EXCEPT !.fetches = WithoutRun(csr.fetches, k)],
                                resp)
  /\ UNCHANGED <<now, probe, metricsCall, revalPrev, revalLast, cmsCollection,
                 cms, dataCache, fetcherLog, pageVars, clientVars>>
  /\ UNCHANGED <<isrPages, isrView, lab>>

\* useState: url '', loading false, result null, error null.  requests
\* lists the requests to /api/metrics that wait for their response.
LabFirstRender ==
  [url |-> "", loading |-> FALSE, result |-> Null, error |-> Null,
   requests |-> <<>>]

\* quickTests: the paths the quick-test buttons fill in.
QuickTestPaths ==
  { "/blog/ssr/hello-world", "/blog/ssg/hello-world", "/blog/isr/hello-world",
    "/blog/isr-ondemand/hello-world", "/blog/csr/hello-world" }

\* The values of the URL field: empty, typed, or filled in by fillUrl
\* (`${window.location.origin}${path}`).
LabUrls ==
  { "", "https://other.example/p" }
  \cup { "http://localhost:3000" \o path : path \in QuickTestPaths }

\* onChange of the field and fillUrl: setUrl
LabSetUrl ==
  /\ \E u \in LabUrls \ {lab.url} : lab' = [lab EXCEPT !.url = u]
  /\ UNCHANGED <<now, probe, metricsCall, revalPrev, revalLast, cmsCollection,
                 cms, dataCache, fetcherLog, pageVars, clientVars>>
  /\ UNCHANGED <<isrPages, isrView, csr>>

\* handleTest up to its return or its await of fetch.
handleTest(state) ==
  IF state.url = ""
  THEN [state EXCEPT !.error = Str("Please enter a URL")]
  ELSE [state EXCEPT !.loading = TRUE, !.error = Null, !.result = Null,
                     !.requests = Append(state.requests, [url |-> state.url])]

\* The form's submit event: handleTest is invoked.  The submit button is
\* disabled while loading is true.
LabSubmit ==
  /\ ~lab.loading
  /\ lab' = handleTest(lab)
  /\ UNCHANGED <<now, probe, metricsCall, revalPrev, revalLast, cmsCollection,
                 cms, dataCache, fetcherLog, pageVars, clientVars>>
  /\ UNCHANGED <<isrPages, isrView, csr>>

\* handleTest from the response on: setResult(data), or the catch block's
\* setError(message); then setLoading(false).
HandleTestEnds(state, reply) ==
  IF reply.t = "response" /\ reply.ok
  THEN [state EXCEPT !.result = reply.data, !.loading = FALSE]
  ELSE [state EXCEPT !.error = ProbeError(reply), !.loading = FALSE]

\* The request of a waiting handleTest ends and the call runs to its end.
LabRequestEnds ==
  /\ \E k \in DOMAIN lab.requests, reply \in MetricsReplies :
       lab' = HandleTestEnds([lab EXCEPT !.requests = WithoutRun(lab.requests, k)],
                             reply)
  /\ UNCHANGED <<now, probe, metricsCall, revalPrev, revalLast, cmsCollection,
                 cms, dataCache, fetcherLog, pageVars, clientVars>>
  /\ UNCHANGED <<isrPages, isrView, csr>>

(***************************************************************************)
(* The specifications: one for each part of the program.                   *)
(***************************************************************************)
InitProbe ==
  /\ now = 0 /\ probe = Idle /\ metricsCall = Idle
  /\ revalPrev = Idle /\ revalLast = Idle
  /\ cmsCollection = "blog_posts" /\ cms = [s \in Slugs |-> 0]
  /\ dataCache = [s \in Slugs |-> None] /\ lastGet = Idle
  /\ lastSlugs = Idle /\ home = HomeUnmounted /\ shown = Idle /\ flight = Idle
  /\ pages = [s \in Slugs |-> None] /\ lastView = Idle
  /\ isrPages = [s \in Slugs |-> None] /\ isrView = Idle
  /\ csr = CsrFirstRender /\ lab = LabFirstRender

NextProbe == Measure
SpecProbe == InitProbe /\ [][NextProbe]_vars

InitMetrics ==
  /\ now = 0 /\ probe = Idle /\ metricsCall = Idle
  /\ revalPrev = Idle /\ revalLast = Idle
  /\ cmsCollection = "blog_posts" /\ cms = [s \in Slugs |-> 0]
  /\ dataCache = [s \in Slugs |-> None] /\ lastGet = Idle
  /\ lastSlugs = Idle /\ home = HomeUnmounted /\ shown = Idle /\ flight = Idle
  /\ pages = [s \in Slugs |-> None] /\ lastView = Idle
  /\ isrPages = [s \in Slugs |-> None] /\ isrView = Idle
  /\ csr = CsrFirstRender /\ lab = LabFirstRender

NextMetrics == PostMetricsRejected \/ PostMetricsProbe
SpecMetrics == InitMetrics /\ [][NextMetrics]_vars

InitRevalidate ==
  /\ now = 0 /\ probe = Idle /\ metricsCall = Idle
  /\ revalPrev = Idle /\ revalLast = Idle
  /\ cmsCollection = "blog_posts" /\ cms = [s \in Slugs |-> 0]
  /\ dataCache = [s \in Slugs |-> None] /\ lastGet = Idle
  /\ lastSlugs = Idle /\ home = HomeUnmounted /\ shown = Idle /\ flight = Idle
  /\ pages = [s \in Slugs |-> None] /\ lastView = Idle
  /\ isrPages = [s \in Slugs |-> None] /\ isrView = Idle
  /\ csr = CsrFirstRender /\ lab = LabFirstRender

NextRevalidate == PostRevalidate
SpecRevalidate == InitRevalidate /\ [][NextRevalidate]_vars

InitCms ==
  /\ now = 0 /\ probe = Idle /\ metricsCall = Idle
  /\ revalPrev = Idle /\ revalLast = Idle
  /\ cmsCollection \in Collections /\ cms \in [Slugs -> {0} \cup Versions]
  /\ dataCache = [s \in Slugs |-> None] /\ lastGet = Idle
  /\ lastSlugs = Idle /\ home = HomeUnmounted /\ shown = Idle /\ flight = Idle
  /\ pages = [s \in Slugs |-> None] /\ lastView = Idle
  /\ isrPages = [s \in Slugs |-> None] /\ isrView = Idle
  /\ csr = CsrFirstRender /\ lab = LabFirstRender

NextCms == CmsEdit \/ GetPost
SpecCms == InitCms /\ [][NextCms]_vars

InitSlugs ==
  /\ now = 0 /\ probe = Idle /\ metricsCall = Idle
  /\ revalPrev = Idle /\ revalLast = Idle
  /\ cmsCollection \in Collections /\ cms \in [Slugs -> {0} \cup Versions]
  /\ dataCache = [s \in Slugs |-> None] /\ lastGet = Idle
  /\ lastSlugs = Idle /\ home = HomeUnmounted /\ shown = Idle /\ flight = Idle
  /\ pages = [s \in Slugs |-> None] /\ lastView = Idle
  /\ isrPages = [s \in Slugs |-> None] /\ isrView = Idle
  /\ csr = CsrFirstRender /\ lab = LabFirstRender

NextSlugs == CmsEdit \/ GetAllSlugs
SpecSlugs == InitSlugs /\ [][NextSlugs]_vars

InitHome ==
  /\ now = 0 /\ probe = Idle /\ metricsCall = Idle
  /\ revalPrev = Idle /\ revalLast = Idle
  /\ cmsCollection = "blog_posts" /\ cms = [s \in Slugs |-> 0]
  /\ dataCache = [s \in Slugs |-> None] /\ lastGet = Idle
  /\ lastSlugs = Idle /\ home = HomeUnmounted /\ shown = Idle /\ flight = Idle
  /\ pages = [s \in Slugs |-> None] /\ lastView = Idle
  /\ isrPages = [s \in Slugs |-> None] /\ isrView = Idle
  /\ csr = CsrFirstRender /\ lab = LabFirstRender

InitShown ==
  /\ now = 0 /\ probe = Idle /\ metricsCall = Idle
  /\ revalPrev = Idle /\ revalLast = Idle
  /\ cmsCollection = "blog_posts" /\ cms = [s \in Slugs |-> 0]
  /\ dataCache = [s \in Slugs |-> None] /\ lastGet = Idle
  /\ lastSlugs = Idle /\ home = HomeUnmounted /\ flight = Idle
  /\ shown \in { [t |-> "body", html |-> b] : b \in Bodies }
              \cup { [t |-> "lines", raw |-> r] : r \in RawHeaders }
  /\ pages = [s \in Slugs |-> None] /\ lastView = Idle
  /\ isrPages = [s \in Slugs |-> None] /\ isrView = Idle
  /\ csr = CsrFirstRender /\ lab = LabFirstRender

NextShown == PreviewBody \/ MapHeaders
SpecShown == InitShown /\ [][NextShown]_vars

InitOnDemand ==
  /\ now = 0 /\ probe = Idle /\ metricsCall = Idle
  /\ revalPrev = Idle /\ revalLast = Idle
  /\ cmsCollection \in Collections /\ cms \in [Slugs -> {0} \cup Versions]
  /\ dataCache = [s \in Slugs |-> None] /\ lastGet = Idle
  /\ lastSlugs = Idle /\ home = HomeUnmounted /\ shown = Idle /\ flight = Idle
  /\ pages = [s \in Slugs |-> None] /\ lastView = Idle
  /\ isrPages = [s \in Slugs |-> None] /\ isrView = Idle
  /\ csr = CsrFirstRender /\ lab = LabFirstRender

NextOnDemand == CmsEdit \/ TriggerRevalidate \/ ViewOnDemand
SpecOnDemand == InitOnDemand /\ [][NextOnDemand]_vars

InitIsr ==
  /\ now = 0 /\ probe = Idle /\ metricsCall = Idle
  /\ revalPrev = Idle /\ revalLast = Idle
  /\ cmsCollection \in Collections /\ cms \in [Slugs -> {0} \cup Versions]
  /\ dataCache = [s \in Slugs |-> None] /\ lastGet = Idle
  /\ lastSlugs = Idle /\ home = HomeUnmounted /\ shown = Idle /\ flight = Idle
  /\ pages = [s \in Slugs |-> None] /\ lastView = Idle
  /\ isrPages = [s \in Slugs |-> None] /\ isrView = Idle
  /\ csr = CsrFirstRender /\ lab = LabFirstRender

NextIsr ==
  CmsEdit \/ TriggerRevalidate \/ TimePasses \/ ViewIsr \/ RegenerateIsr
SpecIsr == InitIsr /\ [][NextIsr]_vars

InitPages ==
  /\ now = 0 /\ probe = Idle /\ metricsCall = Idle
  /\ revalPrev = Idle /\ revalLast = Idle
  /\ cmsCollection \in Collections /\ cms \in [Slugs -> {0} \cup Versions]
  /\ dataCache = [s \in Slugs |-> None] /\ lastGet = Idle
  /\ lastSlugs = Idle /\ home = HomeUnmounted /\ shown = Idle /\ flight = Idle
  /\ pages = [s \in Slugs |-> None] /\ lastView = Idle
  /\ isrPages = [s \in Slugs |-> None] /\ isrView = Idle
  /\ csr = CsrFirstRender /\ lab = LabFirstRender

NextPages == CmsEdit \/ RenderServerPage
SpecPages == InitPages /\ [][NextPages]_vars

InitCsr ==
  /\ now = 0 /\ probe = Idle /\ metricsCall = Idle
  /\ revalPrev = Idle /\ revalLast = Idle
  /\ cmsCollection \in Collections /\ cms \in [Slugs -> {0} \cup Versions]
  /\ dataCache = [s \in Slugs |-> None] /\ lastGet = Idle
  /\ lastSlugs = Idle /\ home = HomeUnmounted /\ shown = Idle /\ flight = Idle
  /\ pages = [s \in Slugs |-> None] /\ lastView = Idle
  /\ isrPages = [s \in Slugs |-> None] /\ isrView = Idle
  /\ csr \in {[CsrFirstRender EXCEPT !.directusUrl = d] : d \in DirectusUrls}
  /\ lab = LabFirstRender

NextCsr == CmsEdit \/ CsrOpen \/ CsrEffect \/ CsrFetchSettles
SpecCsr == InitCsr /\ [][NextCsr]_vars

InitLab ==
  /\ now = 0 /\ probe = Idle /\ metricsCall = Idle
  /\ revalPrev = Idle /\ revalLast = Idle
  /\ cmsCollection = "blog_posts" /\ cms = [s \in Slugs |-> 0]
  /\ dataCache = [s \in Slugs |-> None] /\ lastGet = Idle
  /\ lastSlugs = Idle /\ home = HomeUnmounted /\ shown = Idle /\ flight = Idle
  /\ pages = [s \in Slugs |-> None] /\ lastView = Idle
  /\ isrPages = [s \in Slugs |-> None] /\ isrView = Idle
  /\ csr = CsrFirstRender /\ lab = LabFirstRender

NextLab == LabSetUrl \/ LabSubmit \/ LabRequestEnds
SpecLab == InitLab /\ [][NextLab]_vars

InitFlight ==
  /\ now = 0 /\ probe = Idle /\ metricsCall = Idle
  /\ revalPrev = Idle /\ revalLast = Idle
  /\ cmsCollection = "blog_posts" /\ cms = [s \in Slugs |-> 0]
  /\ dataCache = [s \in Slugs |-> None] /\ lastGet = Idle
  /\ lastSlugs = Idle /\ home = HomeUnmounted /\ shown = Idle /\ flight = Idle
  /\ pages = [s \in Slugs |-> None] /\ lastView = Idle
  /\ isrPages = [s \in Slugs |-> None] /\ isrView = Idle
  /\ csr = CsrFirstRender /\ lab = LabFirstRender

NextFlight == StartMeasure \/ FetchSettles \/ BodySettles

\* The platform settles every fetch and every body read: its HTTP client
\* gives up on a connection, on the headers and on the body after its
\* default timeouts.
SpecFlight ==
  InitFlight /\ [][NextFlight]_vars
    /\ WF_vars(FetchSettles) /\ WF_vars(BodySettles)

NextHome == HomeMount \/ ClickTestAll \/ ProbeCompletes \/ PauseElapses
SpecHome == InitHome /\ [][NextHome]_vars

\* Every request to /api/metrics ends and every timer of 100 ms fires.
SpecHomeFair ==
  SpecHome /\ WF_vars(ProbeCompletes) /\ WF_vars(PauseElapses)

(***************************************************************************)
(* The properties.                                                         *)
(***************************************************************************)
MetricsResultFields ==
  {"url", "status", "statusText", "ttfb", "totalTime", "htmlSize",
   "htmlSizeKB", "headers", "htmlPreview", "timestamp"}

\* C1: measurePageMetrics never raises: whatever the URL and however the
\* fetch goes, the call ends by returning a value.
C1_NeverRaises == probe.t = "probe" => probe.kind = "returned"

\* C2: when the fetch or the body read fails, the outcome is a well-formed
\* MetricsResult: every field present, status 0, statusText 'Fetch Failed',
\* the error message populated, htmlSize 0, no headers, an empty preview,
\* totalTime the time elapsed up to the failure, and ttfb the time to the
\* headers when they arrived and the time up to the failure otherwise.
C2_FailureWellFormed ==
  (probe.t = "probe" /\ probe.outcome # "ok") =>
    /\ MetricsResultFields \subseteq DOMAIN probe.value
    /\ "error" \in DOMAIN probe.value
    /\ probe.value.status = 0
    /\ probe.value.statusText = "Fetch Failed"
    /\ probe.value.error.t = "str" /\ probe.value.error.s # ""
    /\ probe.value.htmlSize = 0
    /\ DOMAIN probe.value.headers = {}
    /\ Len(probe.value.htmlPreview) = 0
    /\ probe.value.totalTime = probe.endAt - probe.start
    /\ probe.value.ttfb \in {probe.headersAt - probe.start, probe.endAt - probe.start}

\* C3: for every outcome of measurePageMetrics, returned or thrown, on
\* the success path and on both failure paths, ttfb <= totalTime.
C3_TtfbAtMostTotal ==
  probe.t = "probe" => probe.value.ttfb <= probe.value.totalTime

\* A probe whose headers arrived and whose body read failed later.
C3_Witness ==
  /\ probe.t = "probe" /\ probe.outcome = "body_error"
  /\ 0 < probe.value.ttfb /\ probe.value.ttfb < probe.value.totalTime

\* C4: POST /api/metrics with a valid URL whose target is unreachable
\* responds 200 with a result of status 0 that carries the error message.
C4_UnreachableAnswers200 ==
  (metricsCall.t = "call" /\ metricsCall.probe.t = "probe"
     /\ metricsCall.fault = "network_error") =>
    /\ metricsCall.status = 200
    /\ {"status", "error"} \subseteq DOMAIN metricsCall.payload
    /\ metricsCall.payload.status = 0
    /\ metricsCall.payload.error.t = "str"
    /\ metricsCall.payload.error.s \in {"fetch failed", "Failed to parse URL"}

\* The request carries no url, or one that is no valid absolute URL, or its
\* body is no JSON object.
MalformedMetricsBody(body) ==
  \/ body.kind # "object"
  \/ Falsy(body.url)
  \/ ~ParseURL(body.url.s).ok

\* C5: POST /api/metrics responds 400 whenever the request carries no url
\* or an invalid one (a body that is no JSON object included), and then
\* issues no probe.
C5_MalformedAnswers400 ==
  (metricsCall.t = "call" /\ MalformedMetricsBody(metricsCall.body)) =>
    /\ metricsCall.status = 400
    /\ metricsCall.probe.t = "none"

RevalCalls == {c \in {revalPrev, revalLast} : c.t = "call"}

\* The paths a call asked the platform to invalidate, in order.
RequestedPaths(c) == [i \in DOMAIN c.calls |-> c.calls[i].path]

\* C6: a POST /api/revalidate for a non-empty identifier s during which the
\* platform raises nothing responds 200 with success true, identifier s and
\* exactly the paths /blog/isr/s and /blog/isr-ondemand/s, both of which it
\* has asked the platform to invalidate.
C6_ConfirmsBothPaths ==
  \A c \in RevalCalls :
    (c.body.kind = "object" /\ ~Falsy(c.body.slug) /\ c.failAt = 0) =>
      /\ c.status = 200
      /\ c.payload.success = TRUE
      /\ c.payload.slug = c.body.slug
      /\ Len(c.payload.revalidated) = 2
      /\ c.payload.revalidated[1] = "/blog/isr/" \o c.body.slug.s
      /\ c.payload.revalidated[2] = "/blog/isr-ondemand/" \o c.body.slug.s
      /\ RequestedPaths(c) = c.payload.revalidated
      /\ \A i \in DOMAIN c.calls : ~c.calls[i].threw

C6_Witness ==
  /\ revalLast.t = "call" /\ revalLast.status = 200
  /\ revalLast.body.slug = Str("a")
  /\ Len(revalLast.calls) = 2

\* C7: POST /api/revalidate responds 400 whenever the request carries no
\* identifier (absent, empty, or a body that is no JSON object), and then
\* asks for no invalidation.
C7_MissingSlugAnswers400 ==
  \A c \in RevalCalls :
    (c.body.kind # "object" \/ Falsy(c.body.slug)) =>
      /\ c.status = 400
      /\ c.calls = <<>>

\* C8: when the platform raises an error during either invalidation call,
\* the endpoint responds 500 with an error payload and no confirmation, the
\* failed call is the last one it made, and no path is requested twice.
C8_PlatformErrorAnswers500 ==
  \A c \in RevalCalls :
    (c.body.kind = "object" /\ ~Falsy(c.body.slug) /\ c.failAt # 0) =>
      /\ c.status = 500
      /\ "error" \in DOMAIN c.payload
      /\ "success" \notin DOMAIN c.payload
      /\ Len(c.calls) = c.failAt
      /\ c.calls[c.failAt].threw
      /\ \A i, j \in DOMAIN c.calls : c.calls[i].path = c.calls[j].path => i = j

C8_Witness ==
  /\ revalLast.t = "call" /\ revalLast.failAt = 2 /\ revalLast.status = 500
  /\ Len(revalLast.calls) = 2 /\ revalLast.calls[2].threw

\* The paths a response lists.
ResponsePaths(c) ==
  IF "revalidated" \in DOMAIN c.payload THEN c.payload.revalidated ELSE <<>>

\* C9: two requests with the same identifier, against the same platform
\* and configuration, that differ in the secret alone have the same status,
\* the same response paths and the same invalidation calls.
C9_SecretIgnored ==
  (revalPrev.t = "call" /\ revalLast.t = "call"
     /\ revalPrev.body.kind = revalLast.body.kind
     /\ revalPrev.body.slug = revalLast.body.slug
     /\ revalPrev.configured = revalLast.configured
     /\ revalPrev.failAt = revalLast.failAt) =>
    /\ revalPrev.status = revalLast.status
    /\ ResponsePaths(revalPrev) = ResponsePaths(revalLast)
    /\ revalPrev.calls = revalLast.calls

\* A request with the configured secret after one with a wrong secret, for
\* the same identifier.
C9_Witness ==
  /\ revalPrev.t = "call" /\ revalLast.t = "call"
  /\ revalPrev.body.slug = Str("a") /\ revalLast.body.slug = Str("a")
  /\ revalPrev.configured = Str("s3cret") /\ revalLast.configured = Str("s3cret")
  /\ revalPrev.failAt = 0 /\ revalLast.failAt = 0
  /\ revalPrev.body.secret = Str("wrong") /\ revalLast.body.secret = Str("s3cret")
  /\ revalLast.status = 200

\* C10: for an identifier the CMS holds, getPost returns, when the CMS
\* answers the request, the item of that identifier with the title and the
\* body the CMS stores.
C10_ReturnsStoredItem ==
  (lastGet.t = "get" /\ lastGet.stored # 0 /\ lastGet.fault = "ok" /\ ~lastGet.hit) =>
    /\ lastGet.result.t = "item"
    /\ lastGet.result.slug = lastGet.slug
    /\ lastGet.result.title = <<"title", lastGet.slug, lastGet.stored>>
    /\ lastGet.result.content = <<"content", lastGet.slug, lastGet.stored>>

\* C11: getPost never raises, and it returns null whenever the network call
\* fails, the CMS answers with a non-success status or with a body that is
\* no JSON, or the CMS holds no post of the identifier: an absent post and
\* an unreachable CMS give the same result.
C11_FailuresGiveNull ==
  lastGet.t = "get" =>
    /\ lastGet.result.t \in {"null", "item"}
    /\ (~lastGet.hit /\ (lastGet.fault # "ok" \/ lastGet.stored = 0)) =>
         lastGet.result = Null

\* The CMS holds the post in the collection asked for and its answer is
\* no JSON.
C11_Witness ==
  /\ lastGet.t = "get" /\ lastGet.fault = "bad_json" /\ ~lastGet.hit
  /\ lastGet.stored # 0 /\ cmsCollection = lastGet.request.collection
  /\ lastGet.result = Null

\* C12: the request of getPost carries the caller's cache directive and no
\* other: a cache mode is the request's cache option, the next member of a
\* structured directive, with its revalidate and its tags, is the request's
\* next option, and an option the caller did not name is not set.
C12_DirectiveForwarded ==
  lastGet.t = "get" =>
    LET given == lastGet.cacheOptions
        sent == lastGet.request.options
    IN  /\ given.t = "str" => sent.cache = given
        /\ given.t # "str" => sent.cache.t = "undefined"
        /\ (given.t = "obj" /\ given.hasNext) =>
             /\ sent.next.t = "next"
             /\ sent.next.revalidate = given.next.revalidate
             /\ sent.next.tags = given.next.tags
        /\ ~(given.t = "obj" /\ given.hasNext) => sent.next.t = "undefined"

\* A structured directive: revalidate every 60 seconds, two tags.
C12_Witness ==
  /\ lastGet.t = "get" /\ lastGet.cacheOptions.t = "obj"
  /\ lastGet.cacheOptions.hasNext
  /\ lastGet.request.options.next.t = "next"
  /\ lastGet.request.options.next.revalidate = Num(60)
  /\ lastGet.request.options.next.tags = {"blog", "blog-a"}

\* C13: getAllSlugs asks with cache: 'no-store'; when the CMS answers with
\* the list of posts it returns their identifiers in the order of the
\* answer; on a failure (a network error, a non-success status, a body
\* that is no JSON or is malformed) it returns the empty sequence.
C13_SlugsInOrderOrEmpty ==
  lastSlugs.t = "slugs" =>
    /\ lastSlugs.request.options.cache = Str("no-store")
    /\ \A i \in DOMAIN lastSlugs.result : lastSlugs.result[i].t = "str"
    /\ (lastSlugs.response.t = "response" /\ lastSlugs.response.ok
          /\ lastSlugs.shape = "list") =>
         /\ Len(lastSlugs.result) = Len(lastSlugs.listed)
         /\ \A i \in DOMAIN lastSlugs.result :
              lastSlugs.result[i].s = lastSlugs.listed[i].slug
    /\ (lastSlugs.fault # "ok" \/ ~lastSlugs.response.ok
          \/ lastSlugs.shape \in MalformedBodies) =>
         lastSlugs.result = <<>>

\* The requests to /api/metrics that are outstanding.
OutstandingProbes == {k \in DOMAIN home.runs : home.runs[k].pc = "probe"}

\* C14: at most one run of testAllModes is in progress and at most one
\* probe request is outstanding; a run has probed a prefix of ssr, ssg,
\* isr, isr-ondemand, csr, in that order, and has issued its probe i+1 only
\* after probe i has ended and the pause after it has elapsed.
C14_OneProbeAtATime ==
  /\ Len(home.runs) <= 1
  /\ Cardinality(OutstandingProbes) <= 1
  /\ home.testing <=> home.runs # <<>>
  /\ \A k \in DOMAIN home.runs :
       LET run == home.runs[k]
       IN  /\ run.issued = SubSeq(ModeNames, 1, Len(run.issued))
           /\ Len(run.issued) <= run.completed + 1
           /\ Len(run.issued) <= run.pauses + 1
           /\ run.pc = "probe" <=> run.completed < Len(run.issued)

\* The last probe of a run is outstanding, after four probes and four
\* pauses; the first probe ended with an error.
C14_Witness ==
  /\ Len(home.runs) = 1 /\ home.testing
  /\ home.runs[1].pc = "probe"
  /\ home.runs[1].issued = ModeNames
  /\ home.runs[1].completed = 4 /\ home.runs[1].pauses = 4
  /\ home.modes[1].error # Null /\ home.modes[5].loading

\* The positions of the characters of s that are no whitespace.
NonSpaceAt(s) ==
  LET Solid(i) == ~s[i].space
  IN  SelectSeq([i \in 1..Len(s) |-> i], Solid)

\* p is s with every run of whitespace between two other characters made
\* one space: the other characters are the same in the same order, p has a
\* space between two of them exactly where s has whitespace, and no
\* whitespace of p is anything but a single space.
RunsCollapsed(p, s) ==
  LET ip == NonSpaceAt(p)
      is == NonSpaceAt(s)
  IN  /\ Len(ip) = Len(is)
      /\ \A k \in DOMAIN ip : p[ip[k]] = s[is[k]]
      /\ \A k \in 1..(Len(ip) - 1) :
           (ip[k + 1] > ip[k] + 1) <=> (is[k + 1] > is[k] + 1)
      /\ \A i \in DOMAIN p :
           p[i].space => /\ p[i] = ChSp
                         /\ i > 1 => ~p[i - 1].space

\* p starts and ends with whitespace exactly if s does.
EdgesKept(p, s) ==
  /\ p = <<>> <=> s = <<>>
  /\ p # <<>> /\ s # <<>> =>
       /\ p[1].space <=> s[1].space
       /\ p[Len(p)].space <=> s[Len(s)].space

\* p neither starts nor ends with whitespace.
EdgesTrimmed(p) == p = <<>> \/ (~p[1].space /\ ~p[Len(p)].space)

\* The first 300 characters of a body, or all of a shorter one.
FirstPreviewLen(s) ==
  [i \in 1..(IF Len(s) < PreviewLen THEN Len(s) ELSE PreviewLen) |-> s[i]]

\* C15 (as the code has it): htmlPreview is the first 300 characters of the
\* body, the whole of a shorter body, with every run of whitespace
\* collapsed to one space and the whitespace at its start and at its end
\* removed; it is never longer than 300 characters.
C15_PreviewCollapsedAndTrimmed ==
  shown.t = "preview" =>
    /\ RunsCollapsed(shown.htmlPreview, FirstPreviewLen(shown.html))
    /\ EdgesTrimmed(shown.htmlPreview)
    /\ Len(shown.htmlPreview) <= PreviewLen

\* A body of five characters that starts with whitespace.
C15_Witness ==
  /\ shown.t = "preview"
  /\ shown.html = <<ChSp, ChA, ChA, ChNl, ChA>>
  /\ shown.htmlPreview = <<ChA, ChA, ChSp, ChA>>

\* C15 (as claimed): for a body shorter than 300 characters htmlPreview is
\* the whole body with every run of whitespace collapsed to one space,
\* nothing else added or removed; for a longer body it comes from the first
\* 300 characters and is never longer than 300 characters.
C15_PreviewIsCollapsedBody ==
  shown.t = "preview" =>
    /\ Len(shown.html) < PreviewLen =>
         /\ RunsCollapsed(shown.htmlPreview, shown.html)
         /\ EdgesKept(shown.htmlPreview, shown.html)
    /\ Len(shown.html) >= PreviewLen =>
         /\ RunsCollapsed(shown.htmlPreview, FirstPreviewLen(shown.html))
         /\ Len(shown.htmlPreview) <= PreviewLen

\* C16: the headers mapping holds every header line of the response, its
\* name with its value, lines of a repeated name included, and no name the
\* response did not carry.
C16_HeadersPreserved ==
  shown.t = "headers" =>
    /\ \A i \in DOMAIN shown.raw :
         /\ shown.raw[i][1] \in DOMAIN shown.headers
         /\ shown.headers[shown.raw[i][1]] = shown.raw[i][2]
    /\ \A n \in DOMAIN shown.headers :
         \E i \in DOMAIN shown.raw : shown.raw[i][1] = n

\* C17: a call of measurePageMetrics that has started ends, and when the
\* target was unreachable it ends by returning a result with status 0 and
\* a non-empty error message.
C17_UnreachableEndsWithResult ==
  /\ (flight.t = "flight" /\ flight.pc = "fetching")
       ~> (flight.t = "flight" /\ flight.pc = "done")
  /\ []((flight.t = "flight" /\ flight.pc = "done"
           /\ flight.probe.outcome = "network_error") =>
          /\ flight.probe.kind = "returned"
          /\ flight.probe.value.status = 0
          /\ flight.probe.value.error.t = "str"
          /\ flight.probe.value.error.s # "")

\* C18: when POST /api/metrics answers with a MetricsResult, the url of
\* the result is the url of the request body, also when the host of that
\* url is the host the request was sent to.
C18_ResultUrlIsRequestUrl ==
  (metricsCall.t = "call" /\ metricsCall.probe.t = "probe"
     /\ metricsCall.status = 200) =>
    /\ "url" \in DOMAIN metricsCall.payload
    /\ metricsCall.payload.url = metricsCall.body.url.s

\* C19: measurePageMetrics requests an absolute URL as it is given, and a
\* site-relative one at the deployment's origin, https://VERCEL_URL when
\* that is configured and http://localhost:3000 otherwise, followed by the
\* path given.
C19_RelativeResolved ==
  (flight.t = "flight" /\ flight.pc = "done") =>
    flight.probe.fetchUrl =
      IF StartsWithSlash(flight.url)
      THEN (IF flight.vercelUrl.t = "str"
            THEN "https://" \o flight.vercelUrl.s
            ELSE "http://localhost:3000") \o flight.url
      ELSE flight.url

\* C20: a request to /blog/isr-ondemand/<slug> is answered with the render
\* the platform holds, whatever the CMS holds by then, and the render a
\* request gets first after a successful revalidation of the slug shows
\* the post as the CMS, which answers, holds it at that time.
C20_RegeneratesOnTriggerOnly ==
  lastView.t = "view" =>
    /\ IsRender(lastView.before) => lastView.render = lastView.before
    /\ (lastView.before.t = "purged" /\ lastView.get.fault = "ok"
          /\ lastView.get.stored # 0) =>
         /\ lastView.render.t = "page"
         /\ lastView.render.title = <<"title", lastView.slug, lastView.get.stored>>
         /\ lastView.render.content = <<"content", lastView.slug, lastView.get.stored>>

\* The age in seconds of the render a request to /blog/isr/<slug> met.
AgeMet == isrView.before.age * TickSeconds

\* C21 (as the code has it): a request to /blog/isr/<slug> that meets a
\* render the platform has not been told to drop gets that render; it
\* starts a regeneration exactly if the render is 60 seconds old or older
\* and none is under way.  A request that meets a render dropped by
\* POST /api/revalidate is rendered anew, whatever the render's age.
C21_CachedUnlessRevalidated ==
  (isrView.t = "view" /\ isrView.before.t = "entry") =>
    /\ ~isrView.before.purged =>
         /\ isrView.cached
         /\ isrView.render = isrView.before.render
         /\ isrView.triggered <=> (AgeMet >= 60 /\ ~isrView.before.regenerating)
    /\ isrView.before.purged => (~isrView.cached /\ ~isrView.triggered)

\* A request meets a render of 60 seconds or more: it gets it and starts
\* the regeneration.
C21_Witness ==
  /\ isrView.t = "view" /\ isrView.before.t = "entry"
  /\ AgeMet >= 60 /\ isrView.cached /\ isrView.triggered
  /\ isrPages[isrView.slug].regenerating

\* C21 (as claimed): whatever happened since the last render, a POST
\* /api/revalidate for the slug included, a request within 60 seconds of
\* it gets that render, and a request after 60 seconds gets it too and a
\* regeneration is under way afterwards.
C21_CachedForSixtySeconds ==
  (isrView.t = "view" /\ isrView.before.t = "entry") =>
    /\ isrView.cached
    /\ isrView.render = isrView.before.render
    /\ AgeMet >= 60 =>
         (isrView.triggered \/ isrView.before.regenerating)

\* C22: every request to the CMS reads the collection blog_posts: the
\* request of getAllSlugs, the request of each call of getPost and the
\* request of the CSR page's fetch name that collection, so that all the
\* rendering modes read the same item of a slug.
C22_ReadsBlogPosts ==
  lastGet.t = "get" =>
    /\ lastGet.request.collection = "blog_posts"
    /\ GetAllSlugsRequest.collection = "blog_posts"
    /\ CsrRequest(lastGet.slug).collection = lastGet.request.collection

\* The directive each server page is to hand to getPost.
DirectiveOf(mode, slug) ==
  CASE mode = "ssr" -> Str("no-store")
    [] mode = "ssg" -> Str("force-cache")
    [] mode = "isr" ->
         [t |-> "obj", hasNext |-> TRUE,
          next |-> [t |-> "next", revalidate |-> Num(60),
                    tags |-> {"blog", "blog-" \o slug}]]
    [] mode = "isr-ondemand" ->
         [t |-> "obj", hasNext |-> TRUE,
          next |-> [t |-> "next", revalidate |-> False,
                    tags |-> {"blog", "blog-" \o slug}]]

\* C23: a render of a server page calls getPost exactly once, for the
\* render's slug and with the directive of the page's mode (SSR 'no-store',
\* SSG 'force-cache', ISR revalidate 60 with the tags blog and blog-<slug>,
\* on-demand ISR revalidate false with the same tags), and none of the other
\* three pages hands getPost that directive.
C23_OneGetPostWithOwnDirective ==
  lastView.t = "render" =>
    /\ Len(lastView.gets) = 1
    /\ lastView.gets[1].slug = lastView.slug
    /\ lastView.gets[1].cacheOptions = DirectiveOf(lastView.mode, lastView.slug)
    /\ \A m \in ServerModes \ {lastView.mode} :
         PageCacheOptions(m, lastView.slug) # lastView.gets[1].cacheOptions

\* The SSG page has rendered a post the CMS holds.
C23_Witness ==
  /\ lastView.t = "render" /\ lastView.mode = "ssg"
  /\ lastView.page.t = "page"
  /\ lastView.gets[1].cacheOptions = Str("force-cache")

\* C24: a POST /api/revalidate for an identifier s asks the platform for
\* path invalidations only, of no path but /blog/isr/s and
\* /blog/isr-ondemand/s, and of exactly these two when it answers 200: it
\* names no tag, no path of another identifier and no SSR, SSG or CSR
\* route, and the renders the platform drops are renders of s.
C24_InvalidatesTwoPathsOnly ==
  /\ \A c \in RevalCalls :
       /\ \A i \in DOMAIN c.calls : DOMAIN c.calls[i] = {"path", "threw"}
       /\ Falsy(c.body.slug) => c.calls = <<>>
       /\ ~Falsy(c.body.slug) =>
            /\ \A i \in DOMAIN c.calls :
                 c.calls[i].path \in {"/blog/isr/" \o c.body.slug.s,
                                      "/blog/isr-ondemand/" \o c.body.slug.s}
            /\ c.status = 200 =>
                 RequestedPaths(c) = <<"/blog/isr/" \o c.body.slug.s,
                                       "/blog/isr-ondemand/" \o c.body.slug.s>>
  /\ (revalPrev.t = "idle" /\ revalLast.t = "call") =>
       \A x \in Slugs :
         pages[x] = Purged =>
           (~Falsy(revalLast.body.slug) /\ revalLast.body.slug.s = x)

\* The first request, for the identifier b, is answered 200: the render of
\* b is dropped and the one of a is not.
C24_Witness ==
  /\ revalPrev.t = "idle" /\ revalLast.t = "call" /\ revalLast.status = 200
  /\ revalLast.body.slug = Str("b")
  /\ pages["b"] = Purged /\ pages["a"] # Purged

\* C25: a POST /api/revalidate that answers with a status other than 200
\* has invalidated no path: none of its revalidatePath calls took effect.
C25_AllOrNothing ==
  \A c \in RevalCalls :
    c.status # 200 => InvalidatedPaths(c.calls) = {}

\* C26: for every URL that POST /api/metrics accepts, the URL the prober
\* hands to fetch has the origin, the path and the query of the URL
\* supplied, also when the endpoint has rewritten a URL of the request's
\* own host to its path.
C26_FetchesSuppliedUrl ==
  (metricsCall.t = "call" /\ metricsCall.probe.t = "probe") =>
    LET asked == ParseURL(metricsCall.body.url.s)
        fetched == ParseURL(metricsCall.probe.fetchUrl)
    IN  /\ fetched.ok
        /\ fetched.origin = asked.origin
        /\ fetched.pathname = asked.pathname
        /\ fetched.search = asked.search

\* Every entry of modes is at rest with a result or with an error, one
\* of the two.
AllSettled ==
  \A i \in DOMAIN home.modes :
    /\ ~home.modes[i].loading
    /\ (home.modes[i].result = Null) # (home.modes[i].error = Null)

\* C27: when every request to /api/metrics ends, with a response or with
\* a failure, a run of testAllModes ends: testing is false again, and then
\* no mode is loading and each of the five has a result or an error and
\* not both, whatever the probes before it ended with.
C27_RunEndsSettled ==
  home.testing ~> (~home.testing /\ AllSettled)

\* A run has ended whose second probe failed and whose later probes gave
\* results.
C27_Witness ==
  /\ ~home.testing /\ home.runs = <<>>
  /\ home.modes[2].error # Null
  /\ \A i \in 3..5 : home.modes[i].result # Null

\* C28: on the CSR page, a post displayed when loading is false is the
\* post of the page's slug, no waiting fetch is one of another slug, and
\* post and error are never both set.
C28_ShowsCurrentPostOrError ==
  /\ (~csr.loading /\ csr.post # Null) => csr.post.slug = csr.slug.s
  /\ \A k \in DOMAIN csr.fetches : csr.fetches[k].slug = csr.slug.s
  /\ ~(csr.post # Null /\ csr.error # Null)

\* C29: the comparison table is shown only when each of the five probes
\* reached its page (status 200), and a mode marked as the fastest by
\* TTFB is one whose probe reached its page.
C29_WinnerReachedPage ==
  /\ TableShown(home) =>
       \A i \in DOMAIN home.modes : home.modes[i].result.status = 200
  /\ \A i \in DOMAIN home.modes :
       IsFastestTTFB(home, i) => home.modes[i].result.status = 200

\* C30: on the Metrics Lab page loading is true exactly while a request to
\* /api/metrics is outstanding, and result and error are never both set,
\* whatever the URLs, the empty one among them, handleTest was invoked
\* with and however the requests ended.
C30_LoadingAndOneOutcome ==
  /\ lab.loading <=> lab.requests # <<>>
  /\ ~(lab.result # Null /\ lab.error # Null)

====
